---- MODULE Spec2Model ----
(***************************************************************************)
(* UrlGuard / LinkShield: the threat analyzer (normalisation, whitelist,   *)
(* result cache, verdict aggregation), the signature gateway (three        *)
(* external services, Safe Browsing cache, rate limiter) and the pure      *)
(* helpers they use.                                                       *)
(*                                                                         *)
(* Time is counted in ticks; the quotas, the TTL and the cache capacity are *)
(* scaled down (see the bounds).                                           *)
(***************************************************************************)
EXTENDS Integers, Sequences, FiniteSets, TLC

VARIABLES
    now,                \* Date.now(), in ticks
    whitelist,          \* ThreatAnalyzer.whitelist : Set<string>
    cache,              \* ThreatAnalyzer.cache : Map<string, CacheEntry>, in insertion order
    safeBrowsingCache,  \* SignatureEngine.safeBrowsingCache : url -> {malicious, timestamp}
    rateLimitCounters,  \* SignatureEngine.rateLimitCounters : service -> {count, resetTime}
    apiKeys,            \* the services whose key is stored in chrome.storage.local
    calls,              \* the analyze() invocations: position, locals, returned result
    hist,               \* history: the calls made, what was returned per cache key
    fnArg,              \* pure-function harness: the function under test and its input
    fnRet,              \* pure-function harness: the value it returned
    worker              \* the service worker: stats, chrome.storage, the tab, its requests

vars == <<now, whitelist, cache, safeBrowsingCache, rateLimitCounters, apiKeys,
          calls, hist, fnArg, fnRet, worker>>

None == "none"

Min(a, b) == IF a <= b THEN a ELSE b
Max(a, b) == IF a >= b THEN a ELSE b

(***************************************************************************)
(* Strings.  A JavaScript string is a TLA+ string, that is a sequence of   *)
(* characters: Len, \o and SubSeq apply; charAt(s, i) is its i-th          *)
(* character as a string of length one (positions count from 1).           *)
(***************************************************************************)
UPPER == "ABCDEFGHIJKLMNOPQRSTUVWXYZ"
LOWER == "abcdefghijklmnopqrstuvwxyz"
DIGITS == {"0","1","2","3","4","5","6","7","8","9"}

charAt(s, i) == SubSeq(s, i, i)

UpperSet == {charAt(UPPER, i) : i \in 1..26}
LowerSet == {charAt(LOWER, i) : i \in 1..26}
AlphaSet == UpperSet \cup LowerSet

\* String.prototype.toLowerCase on one ASCII character
toLowerChar(c) ==
    IF c \in UpperSet
    THEN charAt(LOWER, CHOOSE i \in 1..26 : charAt(UPPER, i) = c)
    ELSE c

\* String.prototype.toLowerCase
RECURSIVE toLowerCase(_)
toLowerCase(s) ==
    IF Len(s) = 0 THEN ""
    ELSE toLowerChar(charAt(s, 1)) \o toLowerCase(SubSeq(s, 2, Len(s)))

\* String.prototype.startsWith / endsWith / includes
startsWith(s, p) == Len(p) <= Len(s) /\ SubSeq(s, 1, Len(p)) = p
endsWith(s, p) == Len(p) <= Len(s) /\ SubSeq(s, Len(s) - Len(p) + 1, Len(s)) = p
includes(s, p) == \E i \in 1..(Len(s) - Len(p) + 1) : SubSeq(s, i, i + Len(p) - 1) = p

\* the index of the first character of s at or after position from that is in
\* chars, or Len(s) + 1 when there is none
firstOf(s, chars, from) ==
    IF \E i \in from..Len(s) : charAt(s, i) \in chars
    THEN CHOOSE i \in from..Len(s) :
            charAt(s, i) \in chars /\ \A j \in from..(i - 1) : charAt(s, j) \notin chars
    ELSE Len(s) + 1

\* the index of the first character at or after from that is NOT in chars
firstNotOf(s, chars, from) ==
    IF \E i \in from..Len(s) : charAt(s, i) \notin chars
    THEN CHOOSE i \in from..Len(s) :
            charAt(s, i) \notin chars /\ \A j \in from..(i - 1) : charAt(s, j) \in chars
    ELSE Len(s) + 1

\* String.prototype.split on a one-character separator
RECURSIVE split(_, _)
split(s, sep) ==
    LET i == firstOf(s, {sep}, 1)
    IN  IF i > Len(s) THEN <<s>>
        ELSE <<SubSeq(s, 1, i - 1)>> \o split(SubSeq(s, i + 1, Len(s)), sep)

\* the number of characters of s that are in chars
countIn(s, chars) == Cardinality({i \in 1..Len(s) : charAt(s, i) \in chars})

\* every character of s is in chars
allIn(s, chars) == \A i \in 1..Len(s) : charAt(s, i) \in chars

(***************************************************************************)
(* new URL(s), for the strings in scope: the scheme, when there is one, is *)
(* http or https; no credentials, no IPv6 literal, no dot segments, no     *)
(* character the parser would percent-encode, no port with leading zeros.  *)
(* A string with no scheme has no base to resolve against: new URL throws. *)
(***************************************************************************)
HostChars == AlphaSet \cup DIGITS \cup {"-", "."}
SchemeChars == AlphaSet \cup DIGITS \cup {"+", "-", "."}

ParseFailure == [ok |-> FALSE]

\* the decimal value of a string of digits
RECURSIVE parseInt(_)
parseInt(s) ==
    IF Len(s) = 0 THEN 0
    ELSE 10 * parseInt(SubSeq(s, 1, Len(s) - 1))
         + (CHOOSE d \in 0..9 : ToString(d) = charAt(s, Len(s)))

defaultPort(scheme) == IF scheme = "http" THEN 80 ELSE 443

\* the path as the parser keeps it: a backslash is a slash in a special URL
RECURSIVE slashes(_)
slashes(s) ==
    IF Len(s) = 0 THEN ""
    ELSE (IF charAt(s, 1) = "\\" THEN "/" ELSE charAt(s, 1)) \o slashes(SubSeq(s, 2, Len(s)))

\* the URL record of the parser: protocol without the colon, hostname in lower
\* case, port ("" when absent or the scheme's default), pathname, query and
\* fragment (hasQuery, hasHash: the string has a "?", a "#": the component is
\* not null)
URL(s) ==
    LET colon == firstOf(s, {":"}, 1)
        scheme == toLowerCase(SubSeq(s, 1, colon - 1))
    IN  IF \/ colon > Len(s)
           \/ colon = 1
           \/ charAt(s, 1) \notin AlphaSet
           \/ ~allIn(SubSeq(s, 1, colon - 1), SchemeChars)
           \/ scheme \notin {"http", "https"}
        THEN ParseFailure
        ELSE
        LET \* special authority (ignore) slashes state: every slash is skipped
            a0 == firstNotOf(s, {"/", "\\"}, colon + 1)
            a1 == firstOf(s, {"/", "\\", "?", "#"}, a0)
            authority == SubSeq(s, a0, a1 - 1)
            portAt == firstOf(authority, {":"}, 1)
            host == SubSeq(authority, 1, portAt - 1)
            portStr == SubSeq(authority, portAt + 1, Len(authority))
            p1 == firstOf(s, {"?", "#"}, a1)
            rawPath == SubSeq(s, a1, p1 - 1)
            hasQuery == p1 <= Len(s) /\ charAt(s, p1) = "?"
            q1 == IF hasQuery THEN firstOf(s, {"#"}, p1 + 1) ELSE p1
            hasHash == q1 <= Len(s)
        IN  IF \/ Len(host) = 0
               \/ ~allIn(host, HostChars)
               \/ ~allIn(portStr, DIGITS)
               \/ (Len(portStr) > 0 /\ parseInt(portStr) > 65535)
            THEN ParseFailure
            ELSE [ok |-> TRUE,
                  protocol |-> scheme,
                  hostname |-> toLowerCase(host),
                  port |-> IF Len(portStr) = 0 \/ parseInt(portStr) = defaultPort(scheme)
                           THEN "" ELSE portStr,
                  pathname |-> IF Len(rawPath) = 0 THEN "/" ELSE slashes(rawPath),
                  hasQuery |-> hasQuery,
                  query |-> IF hasQuery THEN SubSeq(s, p1 + 1, q1 - 1) ELSE "",
                  hasHash |-> hasHash,
                  hash |-> IF hasHash THEN SubSeq(s, q1 + 1, Len(s)) ELSE ""]

\* URL.href: the serialisation of a URL record
href(u) ==
    u.protocol \o "://" \o u.hostname
    \o (IF Len(u.port) = 0 THEN "" ELSE ":" \o u.port)
    \o u.pathname
    \o (IF u.hasQuery THEN "?" \o u.query ELSE "")
    \o (IF u.hasHash THEN "#" \o u.hash ELSE "")

\* urlObj.hash = '': the fragment becomes null
clearHash(u) == [u EXCEPT !.hasHash = FALSE, !.hash = ""]

\* URL.search: "" for a null or empty query
search(u) == IF Len(u.query) = 0 THEN "" ELSE "?" \o u.query

(***************************************************************************)
(* CONFIG                                                                  *)
(***************************************************************************)
LOW == 25
MEDIUM == 40
HIGH == 60
CRITICAL == 85

IP_URL == 40
SUSPICIOUS_TLD == 25
PUNYCODE == 35
LONG_URL == 15
EXCESSIVE_SUBDOMAIN == 20
URL_ENCODING == 25
SUSPICIOUS_KEYWORDS == 30
NO_HTTPS == 15

URL_LENGTH_SUSPICIOUS == 75
URL_LENGTH_VERY_SUSPICIOUS == 150
URL_LENGTH_EXTREME == 250
MAX_SUBDOMAINS == 4
PATH_MAX_DEPTH == 8

SUSPICIOUS_TLDS ==
    {"tk", "ml", "ga", "cf", "gq", "freenom",
     "zip", "mov", "loan", "click", "work", "party", "racing",
     "download", "stream", "trade", "webcam", "men",
     "homes", "top", "xyz", "icu", "site", "online", "vip", "win",
     "bid", "date", "faith", "review", "science", "pro", "cfd",
     "sbs", "bond", "live", "shop", "club", "space", "fun", "buzz",
     "country", "kim", "pw", "cc", "ws", "gdn", "rest", "link"}

TRUSTED_INFRA_DOMAINS ==
    {"google.com", "googleapis.com", "googleusercontent.com", "gstatic.com",
     "gmail.com", "youtube.com", "googlevideo.com", "google-analytics.com",
     "doubleclick.net", "firebaseapp.com", "firebaseio.com",
     "firebasestorage.googleapis.com", "appspot.com", "cloudfront.net",
     "amazonaws.com", "azureedge.net", "azure.com", "microsoft.com",
     "microsoftonline.com", "office.com", "outlook.com", "live.com",
     "windows.net", "github.com", "github.io", "gitlab.com", "bitbucket.org",
     "sourceforge.net", "npmjs.com", "stackoverflow.com", "apple.com",
     "icloud.com", "facebook.com", "fbcdn.net", "twitter.com", "twimg.com",
     "linkedin.com", "licdn.com", "amazon.com", "ssl-images-amazon.com",
     "cloudflare.com", "akamai.net", "fastly.net"}

PHISHING_KEYWORDS ==
    <<"login", "signin", "verify", "account", "security", "update",
      "confirm", "banking", "paypal", "suspended", "limited",
      "unusual", "activity", "locked", "validate", "secure",
      "password", "credential", "verification", "authorize",
      "authenticate", "billing", "payment", "wallet", "invoice">>

URGENT_KEYWORDS ==
    <<"urgent", "immediate", "action required", "expire", "expires",
      "suspended", "locked", "unauthorized", "verify now", "click here",
      "act now", "limited time", "suspended account">>

TARGETED_BRANDS ==
    <<"paypal", "google", "microsoft", "apple", "amazon", "facebook",
      "netflix", "instagram", "twitter", "linkedin", "dropbox",
      "bankofamerica", "chase", "wellsfargo", "citibank">>

\* HeuristicEngine.isURLShortener: the shorteners list
SHORTENERS ==
    {"bit.ly", "tinyurl.com", "goo.gl", "t.co", "ow.ly",
     "is.gd", "buff.ly", "adf.ly", "bit.do", "short.link",
     "cutt.ly", "rb.gy", "tiny.cc", "bc.vc"}

(***************************************************************************)
(* HeuristicEngine: feature extraction                                     *)
(***************************************************************************)
HexSet == DIGITS \cup {"a","b","c","d","e","f","A","B","C","D","E","F"}
AlnumSet == AlphaSet \cup DIGITS
VowelSet == {"a","e","i","o","u","A","E","I","O","U"}

\* the matches of /%[0-9A-F]{2}/gi in s
RECURSIVE countEncoded(_)
countEncoded(s) ==
    IF Len(s) < 3 THEN 0
    ELSE IF charAt(s, 1) = "%" /\ charAt(s, 2) \in HexSet /\ charAt(s, 3) \in HexSet
         THEN 1 + countEncoded(SubSeq(s, 4, Len(s)))
         ELSE countEncoded(SubSeq(s, 2, Len(s)))

\* s has a run of at least n consecutive characters of chars
hasRun(s, chars, n) ==
    \E i \in 1..(Len(s) - n + 1) : allIn(SubSeq(s, i, i + n - 1), chars)

\* HeuristicEngine.isIPAddress
isIPAddress(hostname) ==
    LET p4 == split(hostname, ".")
        p6 == split(hostname, ":")
    IN  \/ /\ Len(p4) = 4
           /\ \A i \in 1..4 : Len(p4[i]) \in 1..3 /\ allIn(p4[i], DIGITS)
        \/ /\ Len(p6) \in 3..8
           /\ \A i \in 1..Len(p6) : Len(p6[i]) <= 4 /\ allIn(p6[i], HexSet)

\* round(1000 * log2(n)), n = 1..64
Log2Milli ==
    <<0, 1000, 1585, 2000, 2322, 2585, 2807, 3000, 3170, 3322, 3459, 3585, 3700,
      3807, 3907, 4000, 4087, 4170, 4248, 4322, 4392, 4459, 4524, 4585, 4644,
      4700, 4755, 4807, 4858, 4907, 4954, 5000, 5044, 5087, 5129, 5170, 5209,
      5248, 5285, 5322, 5358, 5392, 5426, 5459, 5492, 5524, 5555, 5585, 5615,
      5644, 5672, 5700, 5728, 5755, 5781, 5807, 5833, 5858, 5883, 5907, 5931,
      5954, 5977, 6000>>

\* sum over the positions i..Len(s) of log2 of the frequency of the character there
RECURSIVE sumLogFreq(_, _)
sumLogFreq(s, i) ==
    IF i > Len(s) THEN 0
    ELSE Log2Milli[countIn(s, {charAt(s, i)})] + sumLogFreq(s, i + 1)

\* HeuristicEngine.calculateEntropy, in thousandths of a bit (strings of at most
\* 64 characters):  -sum p log2 p  =  log2 len - (sum over positions log2 f) / len
calculateEntropy(str) ==
    IF Len(str) = 0 THEN 0
    ELSE (Len(str) * Log2Milli[Len(str)] - sumLogFreq(str, 1)) \div Len(str)

\* row i of the matrix of levenshteinDistance, from row i - 1 (prev); acc holds the
\* columns 0..Len(acc) - 1 filled so far, bc is b.charAt(i - 1)
RECURSIVE levRow(_, _, _, _)
levRow(a, bc, prev, acc) ==
    LET j == Len(acc)
    IN  IF j > Len(a) THEN acc
        ELSE LET v == IF bc = charAt(a, j) THEN prev[j]
                      ELSE Min(prev[j] + 1, Min(acc[j] + 1, prev[j + 1] + 1))
             IN  levRow(a, bc, prev, Append(acc, v))

\* the matrix, row by row: matrix[i + 1] is row i, columns 0..a.length at 1..a.length + 1
RECURSIVE levMatrix(_, _, _)
levMatrix(a, b, matrix) ==
    LET i == Len(matrix)
    IN  IF i > Len(b) THEN matrix
        ELSE levMatrix(a, b, Append(matrix, levRow(a, charAt(b, i), matrix[i], <<i>>)))

\* HeuristicEngine.levenshteinDistance
levenshteinDistance(a, b) ==
    levMatrix(a, b, <<[j \in 1..(Len(a) + 1) |-> j - 1]>>)[Len(b) + 1][Len(a) + 1]

\* the look-alike table of detectBrandImpersonation; of the look-alike glyphs only
\* the ASCII ones can occur in the hostname of a parsed URL
LOOKALIKES == <<<<"o", "0">>, <<"l", "1">>, <<"l", "|">>>>

\* the body of the loop of detectBrandImpersonation: this brand is returned
brandMatches(hostLower, brand) ==
    LET distance == levenshteinDistance(hostLower, brand \o ".com")
    IN  \/ includes(hostLower, brand) /\ ~endsWith(hostLower, brand \o ".com")
        \/ /\ distance > 0
           /\ distance <= 2
           /\ includes(hostLower, SubSeq(brand, 1, Min(4, Len(brand))))
        \/ \E i \in 1..Len(LOOKALIKES) :
              includes(hostLower, LOOKALIKES[i][2]) /\ includes(brand, LOOKALIKES[i][1])

\* HeuristicEngine.detectBrandImpersonation: the first brand of the list that
\* matches ("" for null)
detectBrandImpersonation(hostname) ==
    LET hostLower == toLowerCase(hostname)
        hits == {k \in 1..Len(TARGETED_BRANDS) : brandMatches(hostLower, TARGETED_BRANDS[k])}
    IN  IF hits = {} THEN ""
        ELSE TARGETED_BRANDS[CHOOSE k \in hits : \A j \in hits : k <= j]

\* HeuristicEngine.isURLShortener
isURLShortener(hostname) ==
    \E sh \in SHORTENERS : hostname = sh \/ endsWith(hostname, "." \o sh)

\* /[a-z]{3,}=[^&]+/i
readableParam(q) ==
    \E i \in 1..(Len(q) - 4) :
        /\ allIn(SubSeq(q, i, i + 2), AlphaSet)
        /\ charAt(q, i + 3) = "="
        /\ charAt(q, i + 4) # "&"

\* /([a-z0-9])\1{3,}/i
consecutiveChars(h) ==
    \E i \in 1..(Len(h) - 3) :
        /\ charAt(h, i) \in AlnumSet
        /\ \A j \in 1..3 : toLowerChar(charAt(h, i + j)) = toLowerChar(charAt(h, i))

\* the number of entries of the list that s includes
keywordCount(list, s) == Cardinality({k \in 1..Len(list) : includes(s, list[k])})

\* the number of non-empty parts
nonEmpty(parts) == Cardinality({i \in 1..Len(parts) : Len(parts[i]) > 0})

\* the feature set extractFeatures returns when new URL throws
defaultFeatures ==
    [length |-> 0, domainLength |-> 0, subdomainCount |-> 0, hasIP |-> FALSE,
     usesHTTPS |-> TRUE, hasSuspiciousTLD |-> FALSE, hasPunycode |-> FALSE,
     hasPort |-> FALSE, specialCharCount |-> 0, digitCount |-> 0, entropy |-> 0,
     urlEncodingCount |-> 0, suspiciousEncoding |-> FALSE, hasReadableParams |-> TRUE,
     hasRandomParams |-> FALSE, hasQualityDomain |-> TRUE, phishingKeywordCount |-> 0,
     urgentKeywordCount |-> 0, brandImpersonation |-> "", pathDepth |-> 0,
     pathSlashCount |-> 0, hasConsecutiveChars |-> FALSE, isShortener |-> FALSE,
     hasHyphenSpam |-> FALSE, hasDotSpam |-> FALSE]

\* extractFeatures reading the keywords and the scheme off the string that
\* new URL refused
featuresOfRefused(url, urlObj) ==
    [defaultFeatures EXCEPT
        !.usesHTTPS = startsWith(url, "https"),
        !.phishingKeywordCount = keywordCount(PHISHING_KEYWORDS, toLowerCase(url))]

\* HeuristicEngine.extractFeatures from the URL record that new URL(url) gave
featuresOf(url, urlObj) ==
        IF ~urlObj.ok THEN defaultFeatures
        ELSE
        LET hostname == urlObj.hostname
            pathname == urlObj.pathname
            domainParts == split(hostname, ".")
            tld == domainParts[Len(domainParts)]
            urlLower == toLowerCase(url)
            queryParams == search(urlObj)
            sld == IF Len(domainParts) >= 2 THEN domainParts[Len(domainParts) - 1] ELSE ""
        IN  [length |-> Len(url),
             domainLength |-> Len(hostname),
             subdomainCount |-> Max(0, Len(domainParts) - 2),
             hasIP |-> isIPAddress(hostname),
             usesHTTPS |-> urlObj.protocol = "https",
             hasSuspiciousTLD |-> toLowerCase(tld) \in SUSPICIOUS_TLDS,
             hasPunycode |-> includes(hostname, "xn--"),
             hasPort |-> urlObj.port # "",
             specialCharCount |-> Len(url) - countIn(url, AlnumSet),
             digitCount |-> countIn(url, DIGITS),
             entropy |-> calculateEntropy(hostname),
             urlEncodingCount |-> countEncoded(url),
             suspiciousEncoding |-> countEncoded(hostname) > 0 \/ countEncoded(pathname) > 5,
             hasReadableParams |-> Len(queryParams) > 0 /\ readableParam(queryParams),
             hasRandomParams |-> Len(queryParams) > 0 /\ hasRun(queryParams, AlnumSet, 20),
             hasQualityDomain |-> Len(sld) >= 3 /\ allIn(sld, AlphaSet),
             phishingKeywordCount |-> keywordCount(PHISHING_KEYWORDS, urlLower),
             urgentKeywordCount |-> keywordCount(URGENT_KEYWORDS, urlLower),
             brandImpersonation |-> detectBrandImpersonation(hostname),
             pathDepth |-> nonEmpty(split(pathname, "/")),
             pathSlashCount |-> countIn(pathname, {"/"}),
             hasConsecutiveChars |-> consecutiveChars(hostname),
             isShortener |-> isURLShortener(hostname),
             hasHyphenSpam |-> countIn(hostname, {"-"}) > 3,
             hasDotSpam |-> Len(domainParts) > 5]

\* HeuristicEngine.extractFeatures
extractFeatures(url) == featuresOf(url, URL(url))

(***************************************************************************)
(* Detection signals (DetectionLayer)                                      *)
(***************************************************************************)
signal(layer, method, score, details, matched) ==
    [layer |-> layer, method |-> method, score |-> score,
     details |-> details, matched |-> matched]

\* the list with x when cond holds, the empty list otherwise: if (cond) layers.push(x)
pushIf(cond, x) == IF cond THEN <<x>> ELSE <<>>

\* Number.prototype.toFixed(2) of a value given in thousandths
RECURSIVE pad(_, _)
pad(s, n) == IF Len(s) >= n THEN s ELSE pad("0" \o s, n)
toFixed2(milli) ==
    LET c == (milli + 5) \div 10
    IN  ToString(c \div 100) \o "." \o pad(ToString(c % 100), 2)

(***************************************************************************)
(* HeuristicEngine.analyze                                                 *)
(***************************************************************************)
LowerAlnum == LowerSet \cup DIGITS

\* /[a-z0-9]+-[a-z0-9]+/
hyphenated(sld) ==
    \E i \in 2..(Len(sld) - 1) :
        /\ charAt(sld, i) = "-"
        /\ charAt(sld, i - 1) \in LowerAlnum
        /\ charAt(sld, i + 1) \in LowerAlnum

\* /[a-z]{5,}[0-9]{3,}/
lettersThenDigits(sld) ==
    \E i \in 1..(Len(sld) - 7) :
        /\ allIn(SubSeq(sld, i, i + 4), LowerSet)
        /\ allIn(SubSeq(sld, i + 5, i + 7), DIGITS)

isSuspiciousSLD(sld) ==
    \/ hyphenated(sld) /\ countIn(sld, DIGITS) > 0 /\ Len(sld) > 12
    \/ lettersThenDigits(sld)
    \/ Len(sld) >= 10 /\ allIn(sld, HexSet)

isSuspiciousSubdomain(subdomain) ==
    \/ Len(subdomain) \in 3..8 /\ allIn(subdomain, HexSet)
    \/ Len(subdomain) > 5 /\ countIn(subdomain, DIGITS) > 0 /\ countIn(subdomain, LowerSet) > 0

\* the rules of HeuristicEngine.analyze, applied to the features and to the URL
\* record of the url
\* no host counted as trusted infrastructure
isTrustedInfraNever(hostname) == FALSE

\* the host is a trusted-infrastructure domain or a subdomain of one
isTrustedInfraHost(hostname) ==
    \E domain \in TRUSTED_INFRA_DOMAINS :
        hostname = domain \/ endsWith(hostname, "." \o domain)

heuristicLayers(features, urlObj) ==
    LET hostname == toLowerCase(urlObj.hostname)
        isTrustedInfra == isTrustedInfraHost(hostname)
        isStructuredURL == features.hasReadableParams /\ features.hasQualityDomain
        lengthThreshold ==
            IF isStructuredURL THEN URL_LENGTH_EXTREME ELSE URL_LENGTH_VERY_SUSPICIOUS
        keywordCountHostOnly == keywordCount(PHISHING_KEYWORDS, hostname)
        phishingCount ==
            IF isTrustedInfra THEN keywordCountHostOnly ELSE features.phishingKeywordCount
        domainParts == split(urlObj.hostname, ".")
        h(method, score, details) == signal("heuristic", method, score, details, TRUE)
    IN
    pushIf(features.hasIP,
           h("IP Address Detection", IP_URL, "URL uses IP address instead of domain name"))
    \o pushIf(features.hasSuspiciousTLD,
           h("Suspicious TLD", SUSPICIOUS_TLD,
             "Domain uses a TLD commonly associated with phishing"))
    \o pushIf(features.hasPunycode,
           h("Punycode/IDN Detection", PUNYCODE,
             "URL contains internationalized domain (potential homograph attack)"))
    \o (IF ~isTrustedInfra /\ features.length > lengthThreshold
        THEN <<h("Excessive URL Length", LONG_URL * 2,
                 "URL length (" \o ToString(features.length) \o ") is extremely suspicious")>>
        ELSE IF ~isTrustedInfra /\ features.length > URL_LENGTH_SUSPICIOUS /\ ~isStructuredURL
        THEN <<h("Long URL", LONG_URL,
                 "URL length (" \o ToString(features.length) \o ") is suspicious")>>
        ELSE <<>>)
    \o pushIf(features.subdomainCount > MAX_SUBDOMAINS,
           h("Excessive Subdomains", EXCESSIVE_SUBDOMAIN,
             "URL has " \o ToString(features.subdomainCount) \o " subdomains (suspicious)"))
    \o pushIf(features.suspiciousEncoding,
           h("Suspicious URL Encoding", URL_ENCODING,
             "URL encoding found in hostname or excessive in path (obfuscation attempt)"))
    \o pushIf(phishingCount > 0,
           h("Phishing Keywords", SUSPICIOUS_KEYWORDS * phishingCount,
             "Contains " \o ToString(phishingCount) \o " phishing-related keyword(s)"
             \o (IF isTrustedInfra THEN " in hostname" ELSE "")))
    \o pushIf(features.brandImpersonation # "",
           h("Brand Impersonation", 50,
             "Potential impersonation of " \o features.brandImpersonation))
    \o pushIf(~features.usesHTTPS /\ features.phishingKeywordCount > 0,
           h("No HTTPS on Sensitive Page", NO_HTTPS, "Sensitive page without HTTPS encryption"))
    \o pushIf(features.hasConsecutiveChars,
           h("Character Pattern Anomaly", 15,
             "Domain contains suspicious repeated character patterns"))
    \o pushIf(features.isShortener,
           h("URL Shortener Detected", 10,
             "URL uses a shortening service (destination unknown)"))
    \o pushIf(features.hasHyphenSpam,
           h("Hyphen Spam", 18, "Domain contains excessive hyphens"))
    \o pushIf(features.hasDotSpam,
           h("Subdomain Spam", 20, "Domain has excessive subdomain levels"))
    \o pushIf(features.pathDepth > PATH_MAX_DEPTH,
           h("Excessive Path Depth", 12,
             "Path has " \o ToString(features.pathDepth) \o " levels (suspicious structure)"))
    \o pushIf(features.urgentKeywordCount > 0,
           h("Social Engineering Language", 25 * features.urgentKeywordCount,
             "Contains " \o ToString(features.urgentKeywordCount)
             \o " urgent/pressure keyword(s)"))
    \o pushIf(~isTrustedInfra /\ features.entropy > 4000,
           h("High Domain Entropy", 25,
             "Domain has high entropy (" \o toFixed2(features.entropy)
             \o "), possibly randomly generated"))
    \o pushIf(Len(domainParts) >= 2 /\ isSuspiciousSLD(domainParts[Len(domainParts) - 1]),
           h("DGA / Random Domain", 35,
             "Domain name pattern appears randomly generated or algorithmic"))
    \o pushIf(Len(domainParts) > 2 /\ isSuspiciousSubdomain(domainParts[1]),
           h("Suspicious Subdomain", 30, "Subdomain appears to be a generated hash or ID"))

\* HeuristicEngine.analyze, for a url that new URL parses (it throws otherwise)
HeuristicEngine_analyze(url) == heuristicLayers(extractFeatures(url), URL(url))

\* HeuristicEngine.calculateScore
RECURSIVE sumScores(_)
sumScores(layers) ==
    IF Len(layers) = 0 THEN 0 ELSE layers[1].score + sumScores(Tail(layers))
calculateScore(layers) == Min(100, sumScores(layers))

(***************************************************************************)
(* MLEngine.  Ratios are kept as numerator and denominator, the confidence *)
(* in hundredths.                                                          *)
(***************************************************************************)
b2i(b) == IF b THEN 1 ELSE 0

\* the vector extractMLFeatures returns when new URL throws
defaultMLFeatures ==
    [urlLength |-> 0, domainLength |-> 0, pathLength |-> 0, queryLength |-> 0,
     subdomainCount |-> 0, digits |-> 0, specials |-> 0, consonants |-> 0, ratioDen |-> 1,
     entropy |-> 0, hasIP |-> 0, usesHTTPS |-> 1, hasSuspiciousTLD |-> 0, hasPunycode |-> 0,
     phishingKeywordScore |-> 0, urgentKeywordScore |-> 0, pathDepth |-> 0,
     hasConsecutiveChars |-> 0, isShortener |-> 0, hasReadableParams |-> 1,
     hasQualityDomain |-> 1, suspiciousEncoding |-> 0, hasRandomParams |-> 0]

\* MLEngine.extractMLFeatures: digitRatio = digits / ratioDen, specialCharRatio =
\* specials / ratioDen, consonantRatio = consonants / ratioDen
mlFeaturesOf(url, features, urlObj) ==
        IF ~urlObj.ok THEN defaultMLFeatures
        ELSE [urlLength |-> features.length,
              domainLength |-> features.domainLength,
              pathLength |-> Len(urlObj.pathname),
              queryLength |-> Len(search(urlObj)),
              subdomainCount |-> features.subdomainCount,
              digits |-> features.digitCount,
              specials |-> features.specialCharCount,
              consonants |-> features.length - countIn(url, VowelSet) - features.digitCount,
              ratioDen |-> Max(features.length, 1),
              entropy |-> features.entropy,
              hasIP |-> b2i(features.hasIP),
              usesHTTPS |-> b2i(features.usesHTTPS),
              hasSuspiciousTLD |-> b2i(features.hasSuspiciousTLD),
              hasPunycode |-> b2i(features.hasPunycode),
              phishingKeywordScore |-> features.phishingKeywordCount * 10,
              urgentKeywordScore |-> features.urgentKeywordCount * 15,
              pathDepth |-> features.pathDepth,
              hasConsecutiveChars |-> b2i(features.hasConsecutiveChars),
              isShortener |-> b2i(features.isShortener),
              hasReadableParams |-> b2i(features.hasReadableParams),
              hasQualityDomain |-> b2i(features.hasQualityDomain),
              suspiciousEncoding |-> b2i(features.suspiciousEncoding),
              hasRandomParams |-> b2i(features.hasRandomParams)]

extractMLFeatures(url) == mlFeaturesOf(url, extractFeatures(url), URL(url))

\* the prediction returned as it was summed
unnormalized(score, confidence) == [score |-> score, confidence |-> confidence]

\* the last step of predict: both values clamped
normalize(score, confidence) ==
    [score |-> Min(100, Max(0, score)), confidence |-> Min(100, Max(10, confidence))]

\* the legitimacy signals counted against the url
legitimacyPenalty(f) ==
    0 - ((IF f.hasReadableParams = 1 THEN 20 ELSE 0)
         + (IF f.hasQualityDomain = 1 THEN 15 ELSE 0)
         + (IF f.usesHTTPS = 1 /\ f.hasQualityDomain = 1 THEN 8 ELSE 0))

\* the legitimacy bonus predict takes off the score
legitimacyBonusOf(f) ==
    (IF f.hasReadableParams = 1 THEN 20 ELSE 0)
    + (IF f.hasQualityDomain = 1 THEN 15 ELSE 0)
    + (IF f.usesHTTPS = 1 /\ f.hasQualityDomain = 1 THEN 8 ELSE 0)

\* MLEngine.predict
MLEngine_predict(f) ==
    LET legitimacyBonus == legitimacyBonusOf(f)
        half == f.hasReadableParams = 1
        score ==
            (IF f.hasIP # 0 THEN 35 ELSE 0)
            + (IF f.hasPunycode # 0 THEN 30 ELSE 0)
            + (IF f.hasSuspiciousTLD # 0 THEN 28 ELSE 0)
            + (IF f.suspiciousEncoding = 1 THEN 30 ELSE 0)
            + (IF f.hasRandomParams = 1 THEN 22 ELSE 0)
            + (IF f.urlLength > 300 THEN (IF half THEN 12 ELSE 25)
               ELSE IF f.urlLength > 200 THEN (IF half THEN 7 ELSE 15)
               ELSE IF f.urlLength > 120 THEN (IF half THEN 4 ELSE 8)
               ELSE 0)
            + (IF f.domainLength > 40 THEN 18 ELSE IF f.domainLength > 25 THEN 10 ELSE 0)
            + (IF f.subdomainCount > 5 THEN 30
               ELSE IF f.subdomainCount > 3 THEN 18
               ELSE IF f.subdomainCount > 2 THEN 10
               ELSE 0)
            + (IF f.pathDepth > 10 THEN 15 ELSE IF f.pathDepth > 7 THEN 8 ELSE 0)
            + (IF 10 * f.digits > 4 * f.ratioDen THEN 20
               ELSE IF 100 * f.digits > 25 * f.ratioDen THEN 12
               ELSE 0)
            + (IF 100 * f.specials > 35 * f.ratioDen THEN 18
               ELSE IF 10 * f.specials > 2 * f.ratioDen THEN 10
               ELSE 0)
            + (IF 10 * f.consonants > 7 * f.ratioDen THEN 12 ELSE 0)
            + (IF f.entropy > 4800 THEN 25
               ELSE IF f.entropy > 4200 THEN 15
               ELSE IF f.entropy > 3800 THEN 8
               ELSE 0)
            + (IF f.hasConsecutiveChars # 0 THEN 12 ELSE 0)
            + Min(f.phishingKeywordScore, 35)
            + Min(f.urgentKeywordScore, 40)
            + (IF f.isShortener # 0 THEN 12 ELSE 0)
            + (IF f.usesHTTPS = 0 THEN 10 ELSE 0)
        confidence ==
            70
            + (IF f.hasReadableParams = 1 THEN 8 ELSE 0)
            + (IF f.hasQualityDomain = 1 THEN 5 ELSE 0)
            + (IF f.hasIP # 0 THEN 15 ELSE 0)
            + (IF f.hasPunycode # 0 THEN 10 ELSE 0)
            + (IF f.hasSuspiciousTLD # 0 THEN 8 ELSE 0)
            + (IF f.suspiciousEncoding = 1 THEN 10 ELSE 0)
            + (IF f.hasRandomParams = 1 THEN 8 ELSE 0)
            + (IF f.subdomainCount > 5 THEN 10 ELSE 0)
            + (IF 10 * f.digits > 4 * f.ratioDen THEN 5 ELSE 0)
            + (IF f.entropy > 4800 THEN 10 ELSE 0)
            + (IF f.urgentKeywordScore > 20 THEN 15 ELSE 0)
            - (IF f.isShortener # 0 THEN 10 ELSE 0)
    IN  normalize(Max(0, score - legitimacyBonus), confidence)

\* the signal matched from the threshold on
mlLayerFromThreshold(prediction) ==
    signal("ml", "ML Model (" \o ToString(prediction.confidence) \o "% confidence)",
           prediction.score,
           "ML prediction: " \o ToString(prediction.score) \o "/100 (confidence: "
           \o ToString(prediction.confidence) \o "%)",
           prediction.score >= 45)

\* the signal MLEngine.analyze makes of a prediction
mlLayer(prediction) ==
    LET score == prediction.score
        pct == ToString(prediction.confidence)
    IN  signal("ml", "ML Model (" \o pct \o "% confidence)", score,
               "ML prediction: " \o ToString(score) \o "/100 (confidence: " \o pct \o "%)",
               score > 45)

\* MLEngine.analyze
MLEngine_analyze(url) == mlLayer(MLEngine_predict(extractMLFeatures(url)))

(***************************************************************************)
(* SignatureEngine.  A Map that is never iterated is a function whose      *)
(* domain is the set of its keys.                                          *)
(***************************************************************************)
SAFE_URL_TTL == 2
RATE_WINDOW == 2
\* CONFIG.CACHE.MALICIOUS_URL_TTL: 24 hours to the hour of SAFE_URL_TTL
MALICIOUS_URL_TTL == 24 * SAFE_URL_TTL
SAFE_BROWSING_PER_MINUTE == 2
VIRUSTOTAL_PER_DAY == 2

mapHas(m, k) == k \in DOMAIN m
mapSet(m, k, v) == [x \in DOMAIN m \cup {k} |-> IF x = k THEN v ELSE m[x]]
EmptyMap == [x \in {} |-> 0]

\* a settled promise of an APIResponse (Promise.allSettled): error = "" and
\* totalDetections = 0 stand for an absent field
fulfilled(success, malicious, source, error, totalDetections) ==
    [status |-> "fulfilled", success |-> success, malicious |-> malicious,
     source |-> source, error |-> error, totalDetections |-> totalDetections,
     reason |-> ""]
rejected(reason) ==
    [status |-> "rejected", success |-> FALSE, malicious |-> FALSE,
     source |-> "", error |-> "", totalDetections |-> 0, reason |-> reason]

\* checkRateLimit writing back the count it read when the call began: the
\* increment of a live window is lost
checkRateLimitLostUpdate(counters, service, limit, t) ==
    IF ~mapHas(counters, service) \/ t > counters[service].resetTime
    THEN [ok |-> TRUE,
          counters |-> mapSet(counters, service, [count |-> 1, resetTime |-> t + RATE_WINDOW])]
    ELSE IF counters[service].count >= limit
    THEN [ok |-> FALSE, counters |-> counters]
    ELSE [ok |-> TRUE, counters |-> counters]

\* SignatureEngine.checkRateLimit: the answer and the counters it leaves
checkRateLimit(counters, service, limit, t) ==
    IF ~mapHas(counters, service) \/ t > counters[service].resetTime
    THEN [ok |-> TRUE,
          counters |-> mapSet(counters, service, [count |-> 1, resetTime |-> t + RATE_WINDOW])]
    ELSE IF counters[service].count >= limit
    THEN [ok |-> FALSE, counters |-> counters]
    ELSE [ok |-> TRUE,
          counters |-> mapSet(counters, service,
                              [counters[service] EXCEPT !.count = @ + 1])]

\* /a.*b/ tested on s
matchesInOrder(s, a, b) ==
    \E i \in 1..(Len(s) - Len(a) + 1) :
        /\ SubSeq(s, i, i + Len(a) - 1) = a
        /\ includes(SubSeq(s, i + Len(a), Len(s)), b)

\* SignatureEngine.checkLocalBlacklist
checkLocalBlacklist(url) ==
    IF ~URL(url).ok
    THEN fulfilled(FALSE, FALSE, "Local Blacklist", "Error checking local blacklist", 0)
    ELSE LET u == toLowerCase(url)
             isBlacklisted ==
                 \/ includes(u, "phishing")
                 \/ includes(u, "malware")
                 \/ includes(u, "scam")
                 \/ matchesInOrder(u, "fake", "login")
                 \/ matchesInOrder(u, "secure", "verify")
                 \/ matchesInOrder(u, "account", "suspend")
         IN  fulfilled(TRUE, isBlacklisted, "Local Blacklist", "", 0)

\* what an external request can answer: a verdict, or an HTTP error status
\* (a verdict of VirusTotal carries the number of engines that flagged the url)
FetchOutcomes == {"malicious", "clean", "error"}
HTTP_STATUS == "500"
VT_DETECTIONS == 3

\* checkSafeBrowsing up to its first await: cache, then rate limit.  pending
\* tells that the check goes on to read the API keys.
checkSafeBrowsing_start(sbCache, counters, url, t) ==
    IF mapHas(sbCache, url) /\ t - sbCache[url].timestamp < SAFE_URL_TTL
    THEN [pending |-> FALSE, counters |-> counters,
          response |-> fulfilled(TRUE, sbCache[url].malicious,
                                 "Google Safe Browsing (cached)", "", 0)]
    ELSE LET rl == checkRateLimit(counters, "safe_browsing", SAFE_BROWSING_PER_MINUTE, t)
         IN  IF ~rl.ok
             THEN [pending |-> FALSE, counters |-> rl.counters,
                   response |-> fulfilled(FALSE, FALSE, "Google Safe Browsing",
                                          "Rate limit exceeded", 0)]
             ELSE [pending |-> TRUE, counters |-> rl.counters,
                   response |-> fulfilled(FALSE, FALSE, "", "", 0)]

\* checkSafeBrowsing from the answer of the external request on
checkSafeBrowsing_fetched(outcome) ==
    IF outcome = "error"
    THEN fulfilled(FALSE, FALSE, "Google Safe Browsing", "API error: " \o HTTP_STATUS, 0)
    ELSE fulfilled(TRUE, outcome = "malicious", "Google Safe Browsing", "", 0)

\* checkPhishTank with no key configured, and from the answer of the request on
checkPhishTank_noKey == fulfilled(TRUE, FALSE, "PhishTank", "", 0)
checkPhishTank_fetched(outcome) ==
    IF outcome = "error"
    THEN fulfilled(FALSE, FALSE, "PhishTank", "API unavailable (" \o HTTP_STATUS \o ")", 0)
    ELSE fulfilled(TRUE, outcome = "malicious", "PhishTank", "", 0)

\* checkVirusTotal with no key configured, rate limited, and from the answer on
checkVirusTotal_noKey == fulfilled(FALSE, FALSE, "VirusTotal", "API key not configured", 0)
checkVirusTotal_limited == fulfilled(FALSE, FALSE, "VirusTotal", "Rate limit exceeded", 0)
checkVirusTotal_fetched(outcome) ==
    IF outcome = "error"
    THEN fulfilled(FALSE, FALSE, "VirusTotal", "VirusTotal API error: " \o HTTP_STATUS, 0)
    ELSE fulfilled(TRUE, outcome = "malicious", "VirusTotal", "",
                   IF outcome = "malicious" THEN VT_DETECTIONS ELSE 0)

apiNames == <<"Google Safe Browsing", "PhishTank", "VirusTotal">>

\* the callback reporting a check that failed as a detection
forEachResultFailureFlags(layers, result, index) ==
    Append(layers,
           signal("signature", apiNames[index], 100,
                  apiNames[index] \o " check failed: " \o result.error,
                  result.status = "rejected" \/ ~result.success \/ result.malicious))

\* the body of results.forEach in checkAllAPIs: the layers after the callback
\* ran on results[index]
forEachResult(layers, result, index) ==
    LET apiName == apiNames[index]
    IN  IF result.status = "fulfilled" /\ result.success
        THEN IF result.malicious
             THEN Append(layers,
                    signal("signature", result.source, 100,
                           "Flagged as malicious by " \o result.source
                           \o (IF result.totalDetections # 0
                               THEN " (" \o ToString(result.totalDetections) \o " detections)"
                               ELSE ""),
                           TRUE))
             ELSE Append(layers,
                    signal("signature", result.source, 0,
                           "Checked by " \o result.source \o " - Clean", FALSE))
        ELSE IF result.status = "fulfilled" /\ ~result.success
        THEN Append(layers,
               signal("signature", apiName, 0,
                      apiName \o " check failed: "
                      \o (IF result.error # "" THEN result.error ELSE "Unknown error"),
                      FALSE))
        ELSE IF result.status = "rejected"
        THEN Append(layers,
               signal("signature", apiName, 0,
                      apiName \o " unavailable: " \o result.reason, FALSE))
        ELSE layers

\* the loop skipping every promise that was rejected
RECURSIVE forEachFulfilled(_, _, _)
forEachFulfilled(layers, results, index) ==
    IF index > Len(results) THEN layers
    ELSE forEachFulfilled(IF results[index].status = "fulfilled"
                          THEN forEachResult(layers, results[index], index)
                          ELSE layers,
                          results, index + 1)

\* the loop given up at the first check that failed, as Promise.all would
RECURSIVE forEachUntilFailure(_, _, _)
forEachUntilFailure(layers, results, index) ==
    IF index > Len(results) THEN layers
    ELSE IF results[index].status = "rejected" \/ ~results[index].success THEN layers
    ELSE forEachUntilFailure(forEachResult(layers, results[index], index), results, index + 1)

\* SignatureEngine.checkAllAPIs once Promise.allSettled has the three results
RECURSIVE forEachFrom(_, _, _)
forEachFrom(layers, results, index) ==
    IF index > Len(results) THEN layers
    ELSE forEachFrom(forEachResult(layers, results[index], index), results, index + 1)

checkAllAPIs(results) == forEachFrom(<<>>, results, 1)

(***************************************************************************)
(* ThreatAnalyzer: pure helpers                                            *)
(***************************************************************************)
\* getRiskLevel with every threshold compared by > instead of >=
getRiskLevelStrict(score) ==
    IF score > CRITICAL THEN "critical"
    ELSE IF score > HIGH THEN "high"
    ELSE IF score > MEDIUM THEN "medium"
    ELSE IF score > LOW THEN "low"
    ELSE "safe"

\* ThreatAnalyzer.getRiskLevel
getRiskLevel(score) ==
    IF score >= CRITICAL THEN "critical"
    ELSE IF score >= HIGH THEN "high"
    ELSE IF score >= MEDIUM THEN "medium"
    ELSE IF score >= LOW THEN "low"
    ELSE "safe"

\* ThreatAnalyzer.normalizeURL
stripSlash(normalized) ==
    IF endsWith(normalized, "/") THEN SubSeq(normalized, 1, Len(normalized) - 1)
    ELSE normalized

normalizedOf(url, urlObj) ==
    IF urlObj.ok THEN toLowerCase(stripSlash(href(clearHash(urlObj))))
    ELSE toLowerCase(url)

normalizeURL(url) == normalizedOf(url, URL(url))

\* Array.prototype.join on strings
RECURSIVE join(_, _)
join(strs, sep) ==
    IF Len(strs) = 0 THEN ""
    ELSE IF Len(strs) = 1 THEN strs[1]
    ELSE strs[1] \o sep \o join(Tail(strs), sep)

\* Array.prototype.filter / map for detection layers
matchedOf(layers) == SelectSeq(layers, LAMBDA l : l.matched)
methodsOf(layers) == [i \in 1..Len(layers) |-> layers[i].method]

\* ThreatAnalysisResult
analysisResult(url, isMalicious, riskScore, riskLevel, detectionLayers, timestamp, details) ==
    [url |-> url, isMalicious |-> isMalicious, riskScore |-> riskScore,
     riskLevel |-> riskLevel, detectionLayers |-> detectionLayers,
     timestamp |-> timestamp, details |-> details]

\* the filter of buildResult that selects the external API layers
isExternalAPILayer(l) ==
    /\ l.layer = "signature"
    /\ \/ includes(l.method, "VirusTotal")
       \/ includes(l.method, "Google Safe Browsing")
       \/ includes(l.method, "PhishTank")

\* the scoring loop leaving out the signature layers
RECURSIVE sumMatchedInternal(_)
sumMatchedInternal(layers) ==
    IF Len(layers) = 0 THEN 0
    ELSE (IF layers[1].matched /\ layers[1].layer # "signature" THEN layers[1].score ELSE 0)
         + sumMatchedInternal(Tail(layers))

\* the scoring loop without its test of layer.matched
RECURSIVE sumAll(_)
sumAll(layers) ==
    IF Len(layers) = 0 THEN 0 ELSE layers[1].score + sumAll(Tail(layers))

\* the sum buildResult takes in its scoring loop
RECURSIVE sumMatched(_)
sumMatched(layers) ==
    IF Len(layers) = 0 THEN 0
    ELSE (IF layers[1].matched THEN layers[1].score ELSE 0) + sumMatched(Tail(layers))

\* the cap buildResult puts on the sum, and the sum left as it is
uncapped(totalScore) == totalScore
capAt100(totalScore) == Min(100, totalScore)

\* ThreatAnalyzer.buildResult
buildResult(url, layers, t) ==
    LET externalAPILayers == SelectSeq(layers, isExternalAPILayer)
        otherLayers == SelectSeq(layers, LAMBDA l : ~isExternalAPILayer(l))
        externalAPIDetected == \E i \in 1..Len(externalAPILayers) : externalAPILayers[i].matched
    IN  IF externalAPIDetected
        THEN LET matchedAPIs == matchedOf(externalAPILayers)
                 otherMatched == matchedOf(otherLayers)
             IN  analysisResult(url, TRUE, 100, "critical", layers, t,
                    "Flagged by external threat intelligence: "
                    \o join(methodsOf(matchedAPIs), ", ")
                    \o (IF Len(otherMatched) > 0
                        THEN " | Also detected by: " \o join(methodsOf(otherMatched), ", ")
                        ELSE ""))
        ELSE LET totalScore == capAt100(sumMatched(layers))
                 riskLevel == getRiskLevel(totalScore)
                 matchedLayers == matchedOf(layers)
             IN  analysisResult(url, riskLevel = "high" \/ riskLevel = "critical",
                    totalScore, riskLevel, layers, t,
                    (IF Len(matchedLayers) > 0
                     THEN "Detected by: " \o join(methodsOf(matchedLayers), ", ")
                     ELSE "No threats detected")
                    \o (IF Len(externalAPILayers) > 0
                        THEN " | External threat intelligence: Clean"
                        ELSE ""))

(***************************************************************************)
(* ThreatAnalyzer.cache: a Map iterated by cacheResult, so a sequence of   *)
(* entries in insertion order.                                             *)
(***************************************************************************)
MAX_CACHE_SIZE == 5

cacheIndex(c, key) ==
    IF \E i \in 1..Len(c) : c[i].key = key
    THEN CHOOSE i \in 1..Len(c) : c[i].key = key
    ELSE 0

\* Map.prototype.set: an existing key keeps its place
cacheSet(c, key, result, t) ==
    LET e == [key |-> key, result |-> result, timestamp |-> t]
        i == cacheIndex(c, key)
    IN  IF i = 0 THEN Append(c, e) ELSE [c EXCEPT ![i] = e]

\* entries.sort((a, b) => a[1].timestamp - b[1].timestamp), a stable sort
insertByTimestamp(sorted, e) ==
    LET n == Cardinality({i \in 1..Len(sorted) : sorted[i].timestamp <= e.timestamp})
    IN  SubSeq(sorted, 1, n) \o <<e>> \o SubSeq(sorted, n + 1, Len(sorted))

RECURSIVE sortByTimestamp(_)
sortByTimestamp(entries) ==
    IF Len(entries) = 0 THEN <<>>
    ELSE insertByTimestamp(sortByTimestamp(SubSeq(entries, 1, Len(entries) - 1)),
                           entries[Len(entries)])

\* the first entries of the Map deleted, whatever their timestamps
toRemoveFirstInserted(c) ==
    IF Len(c) >= MAX_CACHE_SIZE
    THEN {c[i].key : i \in 1..Min(Len(c), (MAX_CACHE_SIZE * 2) \div 10)}
    ELSE {}

\* the keys cacheResult deletes before it stores a result
toRemove(c) ==
    IF Len(c) >= MAX_CACHE_SIZE
    THEN LET entries == sortByTimestamp(c)
         IN  {entries[i].key : i \in 1..Min(Len(entries), (MAX_CACHE_SIZE * 2) \div 10)}
    ELSE {}

\* cacheResult that evicts and then stores nothing
cacheResultEvictOnly(c, url, result, t) ==
    SelectSeq(c, LAMBDA e : e.key \notin toRemove(c))

\* cacheResult that stores and never evicts
cacheResultUnbounded(c, url, result, t) == cacheSet(c, url, result, t)

\* ThreatAnalyzer.cacheResult
cacheResult(c, url, result, t) ==
    LET removed == toRemove(c)
    IN  cacheSet(SelectSeq(c, LAMBDA e : e.key \notin removed), url, result, t)

(***************************************************************************)
(* ThreatAnalyzer.analyze                                                  *)
(***************************************************************************)
NoResult == analysisResult("", FALSE, 0, "none", <<>>, 0, "")

\* the message of the TypeError that new URL throws
InvalidURLMessage == "Failed to construct 'URL': Invalid URL"

whitelistResult(normalizedUrl, t) ==
    analysisResult(normalizedUrl, FALSE, 0, "safe",
        <<signal("signature", "Whitelist", 0, "Domain is whitelisted", FALSE)>>,
        t, "Whitelisted domain")

\* the result the catch block of analyze returns
errorResult(url, message, t) ==
    analysisResult(url, FALSE, 0, "safe",
        <<signal("signature", "Error Handler", 0, "Analysis error: " \o message, FALSE)>>,
        t, "Error during analysis")

\* The urls of the model, and what the pure functions of a url return on them
\* (each is evaluated once)
URLS == {"https://google.com", "https://Google.com/#top", "http://phishing.tk", "google.com"}
\* one more page than the cache holds, each its own cache key
EvictionURL(i) == "https://site" \o ToString(i) \o ".com"
EvictionURLS == {EvictionURL(i) : i \in 1..MAX_CACHE_SIZE + 1}
KnownURLs == (URLS \cup EvictionURLS) \cup {normalizeURL(u) : u \in URLS \cup EvictionURLS}
ofURL ==
    [u \in KnownURLs |->
        [normalizeURL |-> normalizeURL(u),
         URL |-> URL(u),
         checkLocalBlacklist |-> checkLocalBlacklist(u),
         layers |-> IF URL(u).ok
                    THEN HeuristicEngine_analyze(u) \o <<MLEngine_analyze(u)>>
                    ELSE <<>>]]

\* analyze from line 31 to the call of checkAllAPIs, given the normalised url
\* and the URL record made of it: the path taken ("error", "whitelist", "cache",
\* or "gateway" when the layers are to be run; "throw" would be an exception
\* leaving analyze) and the result returned on the first three
\* a cached verdict is served only when none of its signals reports a check
\* that failed
analyze_pathsRetriesFailed(url, normalizedUrl, parsed, i, wl, c, t) ==
    LET failed(l) == /\ Len(l.details) >= Len(l.method \o " check failed")
                     /\ SubSeq(l.details, 1, Len(l.method \o " check failed"))
                            = l.method \o " check failed"
    IN  IF ~parsed.ok
        THEN [path |-> "error", normalizedUrl |-> normalizedUrl,
              result |-> errorResult(url, InvalidURLMessage, t)]
        ELSE IF parsed.hostname \in wl
        THEN [path |-> "whitelist", normalizedUrl |-> normalizedUrl,
              result |-> whitelistResult(normalizedUrl, t)]
        ELSE IF /\ i # 0 /\ t - c[i].timestamp < SAFE_URL_TTL
                /\ \A k \in 1..Len(c[i].result.detectionLayers) :
                       ~failed(c[i].result.detectionLayers[k])
        THEN [path |-> "cache", normalizedUrl |-> normalizedUrl,
              result |-> c[i].result]
        ELSE [path |-> "gateway", normalizedUrl |-> normalizedUrl,
              result |-> NoResult]

analyze_pathsServesAtTTL(url, normalizedUrl, parsed, i, wl, c, t) ==
    IF ~parsed.ok
    THEN [path |-> "error", normalizedUrl |-> normalizedUrl,
          result |-> errorResult(url, InvalidURLMessage, t)]
    ELSE IF parsed.hostname \in wl
    THEN [path |-> "whitelist", normalizedUrl |-> normalizedUrl,
          result |-> whitelistResult(normalizedUrl, t)]
    ELSE IF i # 0 /\ t - c[i].timestamp <= SAFE_URL_TTL
    THEN [path |-> "cache", normalizedUrl |-> normalizedUrl,
          result |-> c[i].result]
    ELSE [path |-> "gateway", normalizedUrl |-> normalizedUrl,
          result |-> NoResult]

analyze_paths(url, normalizedUrl, parsed, i, wl, c, t) ==
    IF ~parsed.ok
    THEN [path |-> "error", normalizedUrl |-> normalizedUrl,
          result |-> errorResult(url, InvalidURLMessage, t)]
    ELSE IF parsed.hostname \in wl
    THEN [path |-> "whitelist", normalizedUrl |-> normalizedUrl,
          result |-> whitelistResult(normalizedUrl, t)]
    ELSE IF i # 0 /\ t - c[i].timestamp < SAFE_URL_TTL
    THEN [path |-> "cache", normalizedUrl |-> normalizedUrl,
          result |-> c[i].result]
    ELSE [path |-> "gateway", normalizedUrl |-> normalizedUrl,
          result |-> NoResult]

analyze_normalized(url, normalizedUrl, wl, c, t) ==
    analyze_paths(url, normalizedUrl, ofURL[normalizedUrl].URL,
                  cacheIndex(c, normalizedUrl), wl, c, t)

\* analyze_start with the hostname parsed outside the try block
analyze_startUnguarded(url, wl, c, t) ==
    LET s == analyze_normalized(url, ofURL[url].normalizeURL, wl, c, t)
    IN  IF s.path = "error" THEN [s EXCEPT !.path = "throw", !.result = NoResult] ELSE s

\* analyze_start without the test of the whitelist
analyze_startNoWhitelist(url, wl, c, t) ==
    analyze_normalized(url, ofURL[url].normalizeURL, {}, c, t)

\* analyze up to the call of checkAllAPIs
analyze_start(url, wl, c, t) ==
    analyze_normalized(url, ofURL[url].normalizeURL, wl, c, t)

\* analyze returning as soon as a gateway signal matched, the heuristic and ML
\* layers not run
analyze_layersShortCircuit(normalizedUrl, signatureLayers, t) ==
    IF \E i \in 1..Len(signatureLayers) : signatureLayers[i].matched
    THEN buildResult(normalizedUrl, signatureLayers, t)
    ELSE buildResult(normalizedUrl, signatureLayers \o ofURL[normalizedUrl].layers, t)

\* analyze giving up, as on an exception, when a check of the gateway failed
analyze_layersFailFast(normalizedUrl, signatureLayers, t) ==
    IF \E i \in 1..Len(signatureLayers) :
           \/ includes(signatureLayers[i].details, " check failed: ")
           \/ includes(signatureLayers[i].details, " unavailable: ")
    THEN errorResult(normalizedUrl, "Unknown", t)
    ELSE buildResult(normalizedUrl, signatureLayers \o ofURL[normalizedUrl].layers, t)

\* analyze from the return of checkAllAPIs to buildResult
analyze_layers(normalizedUrl, signatureLayers, t) ==
    buildResult(normalizedUrl, signatureLayers \o ofURL[normalizedUrl].layers, t)

(***************************************************************************)
(* The ThreatAnalyzer of src/detection/threat-analyzer.ts, which returns   *)
(* at once when a signature signal matched.  Its normalizeURL, whitelist   *)
(* test, cache test, getRiskLevel and cacheResult are those modelled above.*)
(***************************************************************************)
\* the index of the first matched signature signal at which the scoring loop
\* of buildResult breaks, 0 when it runs to the end
firstMatch_break(layers) ==
    IF \E i \in 1..Len(layers) : layers[i].layer = "signature" /\ layers[i].matched
    THEN CHOOSE i \in 1..Len(layers) :
             /\ layers[i].layer = "signature" /\ layers[i].matched
             /\ \A j \in 1..(i - 1) : ~(layers[j].layer = "signature" /\ layers[j].matched)
    ELSE 0

\* buildResult of threat-analyzer.ts
firstMatch_buildResult(url, layers, t) ==
    LET signatureMatched == firstMatch_break(layers) # 0
        totalScore == IF signatureMatched THEN 100 ELSE Min(100, sumMatched(layers))
        riskLevel == getRiskLevel(totalScore)
        matchedLayers == matchedOf(layers)
    IN  analysisResult(url, riskLevel = "high" \/ riskLevel = "critical",
            totalScore, riskLevel, layers, t,
            IF Len(matchedLayers) > 0
            THEN "Detected by: " \o join(methodsOf(matchedLayers), ", ")
            ELSE "No threats detected")

\* the heuristic and ML layers never run
firstMatch_analyze_layersSignatureOnly(normalizedUrl, signatureLayers, t) ==
    firstMatch_buildResult(normalizedUrl, signatureLayers, t)

\* analyze of threat-analyzer.ts from the return of checkAllAPIs to buildResult
firstMatch_analyze_layers(normalizedUrl, signatureLayers, t) ==
    IF Len(signatureLayers) > 0
       /\ \E i \in 1..Len(signatureLayers) : signatureLayers[i].matched
    THEN firstMatch_buildResult(normalizedUrl, signatureLayers, t)
    ELSE firstMatch_buildResult(normalizedUrl,
                                signatureLayers \o ofURL[normalizedUrl].layers, t)

\* addToWhitelist without the conversion to lower case
addToWhitelistRaw(wl, domain) == wl \cup {domain}

\* ThreatAnalyzer.addToWhitelist / removeFromWhitelist
addToWhitelist(wl, domain) == wl \cup {toLowerCase(domain)}
removeFromWhitelist(wl, domain) == wl \ {toLowerCase(domain)}

(***************************************************************************)
(* The state machine.  A slot holds a call of analyze that is at "apis"     *)
(* (suspended in await checkAllAPIs) or at "done" (it returned in the last *)
(* step), or is "idle"; each of                                            *)
(* its three service checks is at "none", "keys" (suspended in await       *)
(* getApiKeys), "fetch" (suspended in await fetch) or "settled".           *)
(***************************************************************************)
MaxTime == 2
MaxAnalyses == 2
MaxGateway == 1
MaxCacheAnalyses == 3

Calls == {1, 2}
Domains == {"google.com", "Google.com"}
Services == {"safe_browsing", "phishtank", "virustotal"}
\* the keys chrome.storage.local may hold when the extension starts
KeyConfigs == SUBSET Services

NoResponse == fulfilled(FALSE, FALSE, "", "", 0)
check(status, response) == [status |-> status, response |-> response]
Unstarted == check("none", NoResponse)

\* listed, promised, kept, requests and counted are history: whether the host
\* was on the whitelist when the call started, the verdicts returned for its
\* key less than a TTL before it started, those among them whose cache entry
\* was still in place, the external requests it made, and whether it changed a
\* rate-limit counter
IdleCall ==
    [pc |-> "idle", url |-> "", normalizedUrl |-> "", path |-> "none",
     sb |-> Unstarted, pt |-> Unstarted, vt |-> Unstarted, result |-> NoResult,
     listed |-> FALSE, promised |-> {}, kept |-> {}, requests |-> 0, counted |-> FALSE,
     stale |-> FALSE]

\* the slots once the caller of every call that returned has taken its result
taken == [c \in Calls |-> IF calls[c].pc = "done" THEN IdleCall ELSE calls[c]]

\* the entries of a history map (key -> set of [result, time]) that are
\* younger than the TTL at time t
fresh(m, key, t) ==
    IF mapHas(m, key) THEN {h.result : h \in {x \in m[key] : t - x.time < SAFE_URL_TTL}}
    ELSE {}

\* the pure functions are not under test in the state machine
NoCall ==
    [fn |-> "none", score |-> 0, url |-> "", results |-> <<>>, features |-> defaultMLFeatures]
\* response, requested, counted and fresh belong to a check of one service: what
\* it answered, whether it sent an external request, whether it changed a
\* rate-limit counter, and the verdicts a successful external check of the same
\* service gave for the same url less than a TTL before
NoReturn ==
    [applied |-> 0, level |-> "", url |-> "", again |-> "", layers |-> <<>>,
     response |-> NoResponse, requested |-> FALSE, counted |-> FALSE, fresh |-> {},
     prediction |-> [score |-> 0, confidence |-> 0],
     threw |-> FALSE, features |-> defaultFeatures]

\* the history kept beside the program's state: the calls of analyze made and
\* those that went to the gateway, the verdicts returned and cached per key, the
\* hosts on the whitelist, and for the service checks called one at a time their
\* number, the times at which checkRateLimit admitted a call, and the
\* successful external checks
Limited == {"safe_browsing", "virustotal"}
NoHistory ==
    [analyses |-> 0, gateway |-> 0, returned |-> EmptyMap, kept |-> EmptyMap, listed |-> {},
     checks |-> 0, admitted |-> [s \in Limited |-> <<>>], checked |-> {},
     pages |-> 0, path |-> "none", key |-> "", evicted |-> {},
     used |-> EmptyMap, hit |-> EmptyMap]

(***************************************************************************)
(* The service worker's module state and what the browser keeps for it.    *)
(* There is one tab.  A slot of requests holds an activation of the        *)
(* onBeforeRequest listener's async function: at "analyze" it is suspended *)
(* in await ThreatAnalyzer.analyze, at "session" in the first await        *)
(* chrome.storage.session.set, at "blocked" in the second.  local and      *)
(* session are chrome.storage.local and chrome.storage.session (a key that *)
(* is absent is <<>>, a stored value v is <<v>>); tab.url is the document  *)
(* the tab shows, tab.pending the url of a navigation under way ("" when   *)
(* there is none).  The rest is history: the domains added to and not      *)
(* removed from the whitelist since, the url the user proceeded to, and    *)
(* the numbers of navigations, messages, restarts and onInstalled events.  *)
(***************************************************************************)
Requests == {1, 2}
TabId == 1
BlankPage == "about:blank"

\* let stats = { ... }
ZeroStats(t) ==
    [totalChecked |-> 0, totalBlocked |-> 0,
     blockedByLayer |-> [signature |-> 0, heuristic |-> 0, ml |-> 0, behavior |-> 0],
     riskDistribution |-> [safe |-> 0, low |-> 0, medium |-> 0, high |-> 0, critical |-> 0],
     lastReset |-> t]

IdleRequest ==
    [pc |-> "idle", url |-> "", key |-> "", pending |-> FALSE, response |-> NoResponse,
     result |-> NoResult, proceed |-> FALSE]

\* the module state of a service worker that has just been started
moduleState(t) ==
    [stats |-> ZeroStats(t), recentlyBlocked |-> <<>>,
     requests |-> [r \in Requests |-> IdleRequest]]

LoadedWorker ==
    [stats |-> moduleState(0).stats,
     recentlyBlocked |-> moduleState(0).recentlyBlocked,
     requests |-> moduleState(0).requests,
     local |-> [stats |-> <<>>, whitelist |-> <<>>],
     session |-> [analysis |-> <<>>, blocked |-> <<>>],
     tab |-> [url |-> BlankPage, pending |-> ""],
     added |-> {}, proceeded |-> "",
     navigations |-> 0, messages |-> 0, restarts |-> 0, installed |-> 0]

Init ==
    /\ worker = LoadedWorker
    /\ now = 0
    /\ whitelist = {}
    /\ cache = <<>>
    /\ safeBrowsingCache = EmptyMap
    /\ rateLimitCounters = EmptyMap
    /\ apiKeys \in KeyConfigs
    /\ calls = [c \in Calls |-> IdleCall]
    /\ hist = NoHistory
    /\ fnArg = NoCall
    /\ fnRet = NoReturn

\* the call in slot c once analyze(u) ran as s tells, up to its return or to its
\* first await
Started(c, u, s) ==
    /\ LET sb == checkSafeBrowsing_start(safeBrowsingCache, rateLimitCounters,
                                         s.normalizedUrl, now)
           started == [IdleCall EXCEPT
                          !.url = u, !.normalizedUrl = s.normalizedUrl, !.path = s.path,
                          !.listed = /\ ofURL[u].URL.ok
                                     /\ toLowerCase(ofURL[u].URL.hostname) \in hist.listed,
                          !.promised = fresh(hist.returned, s.normalizedUrl, now),
                          !.kept = fresh(hist.kept, s.normalizedUrl, now),
                          !.stale = \E i \in 1..Len(cache) :
                                        /\ cache[i].key = s.normalizedUrl
                                        /\ now - cache[i].timestamp >= SAFE_URL_TTL]
       IN  IF s.path = "gateway"
           THEN /\ calls' = [taken EXCEPT ![c] =
                               [started EXCEPT
                                   !.pc = "apis",
                                   !.sb = IF sb.pending THEN check("keys", NoResponse)
                                          ELSE check("settled", sb.response),
                                   !.pt = check("keys", NoResponse),
                                   !.vt = check("keys", NoResponse),
                                   !.counted = sb.counters # rateLimitCounters]]
                /\ rateLimitCounters' = sb.counters
           ELSE /\ calls' = [taken EXCEPT ![c] =
                               [started EXCEPT !.pc = "done", !.result = s.result]]
                /\ UNCHANGED rateLimitCounters
    /\ hist' = [hist EXCEPT
           !.analyses = @ + 1,
           !.gateway = IF s.path = "gateway" THEN @ + 1 ELSE @]
    /\ UNCHANGED <<now, whitelist, cache, safeBrowsingCache, apiKeys, worker, fnArg, fnRet>>

\* analyze(u) is called: everything up to the first await.  The call takes the
\* first slot that holds no suspended call.
Analyze(c, u) ==
    /\ taken[c].pc = "idle"
    /\ \A b \in Calls : b < c => taken[b].pc = "apis"
    /\ Started(c, u, analyze_start(u, whitelist, cache, now))

allSettled(call) ==
    call.sb.status = "settled" /\ call.pt.status = "settled" /\ call.vt.status = "settled"

\* analyze returns result from its call in slot c: cacheResult, then return
Returns(c, call, key, result) ==
    LET removed == toRemove(cache)
        returned == [result |-> result, time |-> now]
    IN  /\ calls' = [taken EXCEPT ![c] =
                        [call EXCEPT !.pc = "done", !.path = "aggregated", !.result = result]]
        /\ cache' = cacheResult(cache, key, result, now)
        /\ hist' = [hist EXCEPT
               !.returned = mapSet(@, key,
                                   (IF mapHas(@, key) THEN @[key] ELSE {}) \cup {returned}),
               !.kept = mapSet([k \in DOMAIN @ \ removed |-> @[k]], key, {returned})]

\* a service check of call c settled, leaving the call as in call: when it was
\* the last of the three, Promise.allSettled resolves and analyze runs on to
\* its return (aggregation, heuristics, ML, buildResult, cacheResult)
Settle(c, call) ==
    IF allSettled(call)
    THEN Returns(c, call, call.normalizedUrl,
                 analyze_layers(call.normalizedUrl,
                                checkAllAPIs(<<call.sb.response, call.pt.response,
                                               call.vt.response>>),
                                now))
    ELSE /\ calls' = [taken EXCEPT ![c] = call]
         /\ UNCHANGED <<cache, hist>>

\* checkSafeBrowsing resumes after await getApiKeys: the local blacklist when
\* no key is stored, else the request, whose verdict is cached
SafeBrowsingCompletes(c) ==
    /\ calls[c].pc = "apis"
    /\ calls[c].sb.status = "keys"
    /\ IF "safe_browsing" \notin apiKeys
       THEN /\ Settle(c, [calls[c] EXCEPT
                    !.sb = check("settled",
                                     ofURL[calls[c].normalizedUrl].checkLocalBlacklist)])
            /\ UNCHANGED safeBrowsingCache
       ELSE \E outcome \in FetchOutcomes :
            /\ Settle(c, [calls[c] EXCEPT
                    !.sb = check("settled", checkSafeBrowsing_fetched(outcome)),
                    !.requests = @ + 1])
            /\ safeBrowsingCache' =
                   IF outcome = "error" THEN safeBrowsingCache
                   ELSE mapSet(safeBrowsingCache, calls[c].normalizedUrl,
                               [malicious |-> outcome = "malicious", timestamp |-> now])
    /\ UNCHANGED <<now, whitelist, rateLimitCounters, apiKeys, worker, fnArg, fnRet>>

\* checkPhishTank resumes after await getApiKeys and runs to its return
PhishTankCompletes(c) ==
    /\ calls[c].pc = "apis"
    /\ calls[c].pt.status = "keys"
    /\ IF "phishtank" \notin apiKeys
       THEN Settle(c, [calls[c] EXCEPT !.pt = check("settled", checkPhishTank_noKey)])
       ELSE \E outcome \in FetchOutcomes :
            Settle(c, [calls[c] EXCEPT
                    !.pt = check("settled", checkPhishTank_fetched(outcome)),
                    !.requests = @ + 1])
    /\ UNCHANGED <<now, whitelist, safeBrowsingCache, rateLimitCounters, apiKeys, worker,
                   fnArg, fnRet>>

\* checkVirusTotal resumes after await getApiKeys: key, rate limit, then the
\* request is sent
VirusTotalStarts(c) ==
    /\ calls[c].pc = "apis"
    /\ calls[c].vt.status = "keys"
    /\ IF "virustotal" \notin apiKeys
       THEN /\ Settle(c, [calls[c] EXCEPT !.vt = check("settled", checkVirusTotal_noKey)])
            /\ UNCHANGED rateLimitCounters
       ELSE LET rl == checkRateLimit(rateLimitCounters, "virustotal", VIRUSTOTAL_PER_DAY, now)
            IN  /\ rateLimitCounters' = rl.counters
                /\ IF rl.ok
                   THEN Settle(c, [calls[c] EXCEPT !.vt = check("fetch", NoResponse),
                                                   !.counted = TRUE])
                   ELSE Settle(c, [calls[c] EXCEPT
                                      !.vt = check("settled", checkVirusTotal_limited)])
    /\ UNCHANGED <<now, whitelist, safeBrowsingCache, apiKeys, worker, fnArg, fnRet>>

\* the VirusTotal request is answered
VirusTotalCompletes(c) ==
    /\ calls[c].pc = "apis"
    /\ calls[c].vt.status = "fetch"
    /\ \E outcome \in FetchOutcomes :
           Settle(c, [calls[c] EXCEPT
                   !.vt = check("settled", checkVirusTotal_fetched(outcome)),
                   !.requests = @ + 1])
    /\ UNCHANGED <<now, whitelist, safeBrowsingCache, rateLimitCounters, apiKeys, worker,
                   fnArg, fnRet>>

AddToWhitelist(d) ==
    /\ whitelist' = addToWhitelist(whitelist, d)
    /\ hist' = [hist EXCEPT !.returned = EmptyMap,
                            !.listed = @ \cup {toLowerCase(d)}]
    /\ calls' = taken
    /\ UNCHANGED <<now, cache, safeBrowsingCache, rateLimitCounters, apiKeys, worker,
                   fnArg, fnRet>>

RemoveFromWhitelist(d) ==
    /\ whitelist' = removeFromWhitelist(whitelist, d)
    /\ hist' = [hist EXCEPT !.returned = EmptyMap,
                            !.listed = @ \ {toLowerCase(d)}]
    /\ calls' = taken
    /\ UNCHANGED <<now, cache, safeBrowsingCache, rateLimitCounters, apiKeys, worker,
                   fnArg, fnRet>>

\* ThreatAnalyzer.clearCache
ClearCache ==
    /\ cache' = <<>>
    /\ hist' = [hist EXCEPT !.returned = EmptyMap, !.kept = EmptyMap]
    /\ calls' = taken
    /\ UNCHANGED <<now, whitelist, safeBrowsingCache, rateLimitCounters, apiKeys, worker,
                   fnArg, fnRet>>

\* time passes
Tick ==
    /\ now < MaxTime
    /\ now' = now + 1
    /\ calls' = taken
    /\ UNCHANGED <<whitelist, cache, safeBrowsingCache, rateLimitCounters, apiKeys, worker,
                   hist, fnArg, fnRet>>

\* the bound on the calls of analyze in a behaviour: at most maxCalls, of which
\* at most maxGateway go on to query the gateway
within(maxCalls, maxGateway) == hist'.analyses <= maxCalls /\ hist'.gateway <= maxGateway

\* a call of analyze, within the bound of the behaviours explored
AnalyzeURL(c, u) == Analyze(c, u) /\ within(MaxAnalyses, MaxGateway)

Next ==
    \/ \E c \in Calls, u \in URLS : AnalyzeURL(c, u)
    \/ \E c \in Calls : SafeBrowsingCompletes(c)
    \/ \E c \in Calls : PhishTankCompletes(c)
    \/ \E c \in Calls : VirusTotalStarts(c)
    \/ \E c \in Calls : VirusTotalCompletes(c)
    \/ \E d \in Domains : AddToWhitelist(d)
    \/ \E d \in Domains : RemoveFromWhitelist(d)
    \/ ClearCache
    \/ Tick

Spec == Init /\ [][Next]_vars

(***************************************************************************)
(* The result cache under repeated analyses of one page: the urls are two  *)
(* spellings of one page, and only the VirusTotal key is stored.           *)
(***************************************************************************)
CacheURLS == {"https://google.com", "https://Google.com/#top"}
CacheDomains == {"google.com"}

InitCache ==
    /\ Init
    /\ apiKeys = {"virustotal"}

AnalyzePage(c, u) == Analyze(c, u) /\ within(MaxCacheAnalyses, MaxCacheAnalyses)

NextCache ==
    \/ \E c \in Calls, u \in CacheURLS : AnalyzePage(c, u)
    \/ \E c \in Calls : SafeBrowsingCompletes(c)
    \/ \E c \in Calls : PhishTankCompletes(c)
    \/ \E c \in Calls : VirusTotalStarts(c)
    \/ \E c \in Calls : VirusTotalCompletes(c)
    \/ \E d \in CacheDomains : AddToWhitelist(d)
    \/ \E d \in CacheDomains : RemoveFromWhitelist(d)
    \/ ClearCache
    \/ Tick

SpecCache == InitCache /\ [][NextCache]_vars

(***************************************************************************)
(* One page analysed again and again, each call awaited before the next,   *)
(* while the services recover: the PhishTank key may be stored, the        *)
(* limiter's window runs out, a request that failed may succeed.           *)
(***************************************************************************)
MaxRecoveryAnalyses == 4
MaxRecoveryTime == 3
RecoveryURL == "https://google.com"

\* the key of service s is put in chrome.storage.local, where getApiKeys reads
\* it at the next check
KeyStored(s) ==
    /\ s \notin apiKeys
    /\ apiKeys' = apiKeys \cup {s}
    /\ calls' = taken
    /\ UNCHANGED <<now, whitelist, cache, safeBrowsingCache, rateLimitCounters,
                   hist, fnArg, fnRet, worker>>

TickRecovery ==
    /\ now < MaxRecoveryTime
    /\ now' = now + 1
    /\ calls' = taken
    /\ UNCHANGED <<whitelist, cache, safeBrowsingCache, rateLimitCounters, apiKeys, worker,
                   hist, fnArg, fnRet>>

NextRecovery ==
    \/ /\ Analyze(1, RecoveryURL)
       /\ within(MaxRecoveryAnalyses, MaxRecoveryAnalyses)
    \/ \E c \in Calls : SafeBrowsingCompletes(c)
    \/ \E c \in Calls : PhishTankCompletes(c)
    \/ \E c \in Calls : VirusTotalStarts(c)
    \/ \E c \in Calls : VirusTotalCompletes(c)
    \/ KeyStored("phishtank")
    \/ ClearCache
    \/ TickRecovery

SpecRecovery == InitCache /\ [][NextRecovery]_vars

(***************************************************************************)
(* The service worker: the onBeforeRequest listener, the message handlers, *)
(* onInstalled and the alarms, with the browser (the tab's navigations,    *)
(* the restarts of the worker) and the user (navigating, proceeding from   *)
(* the blocked page, sending messages from the popup).  No API key is      *)
(* stored and no time passes.                                              *)
(***************************************************************************)
MaxNavigations == 2
MaxMessages == 2
MaxRestarts == 1
MAX_RECENT_BLOCKED == 100
WorkerURLS == {"http://phishing.tk", "https://google.com"}
WorkerDomains == {"phishing.tk", "google.com"}
BlockedHtml == "chrome-extension://urlguard/blocked.html"

\* encodeURIComponent, on the characters the urls of the model are made of
RECURSIVE encodeURIComponent(_)
encodeURIComponent(str) ==
    IF str = "" THEN ""
    ELSE LET ch == SubSeq(str, 1, 1)
         IN  (IF ch = ":" THEN "%3A"
              ELSE IF ch = "/" THEN "%2F"
              ELSE IF ch = "?" THEN "%3F"
              ELSE IF ch = "#" THEN "%23"
              ELSE IF ch = "&" THEN "%26"
              ELSE IF ch = "=" THEN "%3D"
              ELSE ch)
             \o encodeURIComponent(SubSeq(str, 2, Len(str)))

\* the percent-decoding URLSearchParams does
RECURSIVE percentDecode(_)
percentDecode(str) ==
    IF str = "" THEN ""
    ELSE IF SubSeq(str, 1, 1) = "%" /\ Len(str) >= 3
    THEN LET code == SubSeq(str, 2, 3)
         IN  (IF code = "3A" THEN ":"
              ELSE IF code = "2F" THEN "/"
              ELSE IF code = "3F" THEN "?"
              ELSE IF code = "23" THEN "#"
              ELSE IF code = "26" THEN "&"
              ELSE IF code = "3D" THEN "="
              ELSE "%" \o code)
             \o percentDecode(SubSeq(str, 4, Len(str)))
    ELSE SubSeq(str, 1, 1) \o percentDecode(SubSeq(str, 2, Len(str)))

\* the url of the blocked page the listener navigates the tab to
blockedPageUrl(url, tabId) ==
    BlockedHtml \o "?url=" \o encodeURIComponent(url) \o "&tabId=" \o ToString(tabId)

\* blocked.ts: params.get('url') of the blocked page at pageUrl
blockedURL(pageUrl) ==
    LET query == SubSeq(pageUrl, Len(BlockedHtml \o "?url=") + 1, Len(pageUrl))
        stop == CHOOSE i \in 1..Len(query) + 1 :
                    /\ (i = Len(query) + 1 \/ SubSeq(query, i, i) = "&")
                    /\ \A j \in 1..(i - 1) : SubSeq(query, j, j) # "&"
    IN  percentDecode(SubSeq(query, 1, stop - 1))

\* the listener after await ThreatAnalyzer.analyze gave result to the
\* activation in slot r of worker w: the statistics are updated and the result
\* is written to the session store, which the listener awaits
analysed(w, r, result) ==
    [w EXCEPT !.stats.totalChecked = @ + 1,
              !.stats.riskDistribution[result.riskLevel] = @ + 1,
              !.session.analysis = <<result>>,
              !.requests[r].pc = "session",
              !.requests[r].result = result]

\* the activation in slot r of worker w once analyze(url) ran as s tells up to
\* its return or to its first await, where checkSafeBrowsing stands as sb
\* tells
listening(w, r, url, proceed, s, sb) ==
    IF s.path = "gateway"
    THEN [w EXCEPT !.requests[r] =
                       [IdleRequest EXCEPT
                           !.pc = "analyze", !.url = url, !.key = s.normalizedUrl,
                           !.proceed = proceed, !.pending = sb.pending,
                           !.response = sb.response]]
    ELSE analysed([w EXCEPT !.requests[r] =
                                [IdleRequest EXCEPT
                                    !.url = url, !.key = s.normalizedUrl,
                                    !.proceed = proceed]],
                  r, s.result)

\* the listener's async function started in slot r
Listener(w, r, url, proceed, s) ==
    /\ worker' = listening(w, r, url, proceed, s,
                     checkSafeBrowsing_start(safeBrowsingCache, rateLimitCounters,
                                             s.normalizedUrl, now))
    /\ rateLimitCounters' =
           IF s.path = "gateway"
           THEN checkSafeBrowsing_start(safeBrowsingCache, rateLimitCounters,
                                        s.normalizedUrl, now).counters
           ELSE rateLimitCounters

\* a request of the tab for url (type main_frame) issued by the browser in
\* worker state w: the navigation is under way and the listener runs to its
\* first suspension.  The listener returns nothing, so the request goes on.
Request(w, url, proceed) ==
    IF \/ startsWith(url, "chrome://") \/ startsWith(url, "chrome-extension://")
       \/ startsWith(url, "edge://")
    THEN /\ worker' = [w EXCEPT !.tab.pending = url]
         /\ UNCHANGED rateLimitCounters
    ELSE \E r \in Requests :
         /\ w.requests[r].pc = "idle"
         /\ \A q \in Requests : q < r => w.requests[q].pc # "idle"
         /\ Listener([w EXCEPT !.tab.pending = url], r, url, proceed,
                     analyze_start(url, whitelist, cache, now))

\* the user navigates the tab to u
Navigate(u) ==
    /\ worker.navigations < MaxNavigations
    /\ Request([worker EXCEPT !.navigations = @ + 1], u, FALSE)
    /\ UNCHANGED <<now, whitelist, cache, safeBrowsingCache, apiKeys, calls, hist,
                   fnArg, fnRet>>

\* the browser commits the navigation under way: the tab shows the page
PageLoads ==
    /\ worker.tab.pending # ""
    /\ worker' = [worker EXCEPT !.tab = [url |-> worker.tab.pending, pending |-> ""]]
    /\ UNCHANGED <<now, whitelist, cache, safeBrowsingCache, rateLimitCounters, apiKeys,
                   calls, hist, fnArg, fnRet>>

\* analyze stores result under key and returns it to the activation in slot r
Resumed(r, key, result) ==
    /\ cache' = cacheResult(cache, key, result, now)
    /\ worker' = analysed(worker, r, result)

\* await ThreatAnalyzer.analyze(details.url) returns to the activation in
\* slot r: the checks are settled (no key is stored), the result is built and
\* cached, and the listener runs on to await chrome.storage.session.set
AnalysisReturns(r) ==
    /\ worker.requests[r].pc = "analyze"
    /\ apiKeys = {}
    /\ Resumed(r, worker.requests[r].key,
               firstMatch_analyze_layers(worker.requests[r].key,
                   checkAllAPIs(<<IF worker.requests[r].pending
                                  THEN ofURL[worker.requests[r].key].checkLocalBlacklist
                                  ELSE worker.requests[r].response,
                                  checkPhishTank_noKey, checkVirusTotal_noKey>>),
                   now))
    /\ UNCHANGED <<now, whitelist, safeBrowsingCache, rateLimitCounters, apiKeys, calls,
                   hist, fnArg, fnRet>>

\* the number of matched signals of a layer
matchedIn(layers, layer) ==
    Cardinality({i \in 1..Len(layers) : layers[i].matched /\ layers[i].layer = layer})

\* recentlyBlocked.unshift(site), then pop() when the list is too long
unshift(recentlyBlocked, site) ==
    SubSeq(<<site>> \o recentlyBlocked, 1, Min(Len(recentlyBlocked) + 1, MAX_RECENT_BLOCKED))

\* the listener's block 'if (result.isMalicious)' up to its await
blocking(w, r, result) ==
    [w EXCEPT
        !.stats.totalBlocked = @ + 1,
        !.stats.blockedByLayer =
            [l \in DOMAIN @ |-> @[l] + matchedIn(result.detectionLayers, l)],
        !.recentlyBlocked =
            unshift(@, [url |-> w.requests[r].url, timestamp |-> now,
                        riskLevel |-> result.riskLevel, reason |-> result.details]),
        !.session.blocked = <<result>>,
        !.requests[r].pc = "blocked"]

\* the first await chrome.storage.session.set resolves in slot r: a result
\* that is not malicious ends the activation; a malicious one is counted,
\* recorded and written to the session store for the blocked page
SessionStored(r) ==
    /\ worker.requests[r].pc = "session"
    /\ worker' = IF worker.requests[r].result.isMalicious
                 THEN blocking(worker, r, worker.requests[r].result)
                 ELSE [worker EXCEPT !.requests[r] = IdleRequest]
    /\ UNCHANGED <<now, whitelist, cache, safeBrowsingCache, rateLimitCounters, apiKeys,
                   calls, hist, fnArg, fnRet>>

\* the second await resolves in slot r: chrome.tabs.update(tabId, {url:
\* blockedPageUrl}) navigates the tab to the blocked page
BlockedStored(r) ==
    /\ worker.requests[r].pc = "blocked"
    /\ Request([worker EXCEPT !.requests[r] = IdleRequest],
               blockedPageUrl(worker.requests[r].url, TabId), FALSE)
    /\ UNCHANGED <<now, whitelist, cache, safeBrowsingCache, apiKeys, calls, hist,
                   fnArg, fnRet>>

\* message 'resetStats'
ResetStats ==
    /\ worker.messages < MaxMessages
    /\ worker' = [worker EXCEPT !.stats = ZeroStats(now),
                                !.local.stats = <<ZeroStats(now)>>,
                                !.messages = @ + 1]
    /\ UNCHANGED <<now, whitelist, cache, safeBrowsingCache, rateLimitCounters, apiKeys,
                   calls, hist, fnArg, fnRet>>

\* message 'addToWhitelist'
AddToWhitelistMessage(d) ==
    /\ worker.messages < MaxMessages
    /\ whitelist' = addToWhitelist(whitelist, d)
    /\ worker' = [worker EXCEPT !.local.whitelist = <<whitelist'>>,
                                !.added = @ \cup {d},
                                !.messages = @ + 1]
    /\ UNCHANGED <<now, cache, safeBrowsingCache, rateLimitCounters, apiKeys, calls,
                   hist, fnArg, fnRet>>

\* message 'removeFromWhitelist'
RemoveFromWhitelistMessage(d) ==
    /\ worker.messages < MaxMessages
    /\ whitelist' = removeFromWhitelist(whitelist, d)
    /\ worker' = [worker EXCEPT !.local.whitelist = <<whitelist'>>,
                                !.added = @ \ {d},
                                !.messages = @ + 1]
    /\ UNCHANGED <<now, cache, safeBrowsingCache, rateLimitCounters, apiKeys, calls,
                   hist, fnArg, fnRet>>

\* the user confirms 'Proceed Anyway' on the blocked page the tab shows:
\* blocked.ts sends 'proceedAnyway' with the url and the tab of its query, and
\* the handler removes the blocked entry and navigates the tab to the url
ProceedAnyway ==
    /\ worker.navigations < MaxNavigations
    /\ worker.tab.pending = ""
    /\ startsWith(worker.tab.url, BlockedHtml)
    /\ Request([worker EXCEPT !.session.blocked = <<>>,
                              !.proceeded = blockedURL(worker.tab.url),
                              !.navigations = @ + 1],
               blockedURL(worker.tab.url), TRUE)
    /\ UNCHANGED <<now, whitelist, cache, safeBrowsingCache, apiKeys, calls, hist,
                   fnArg, fnRet>>

\* the browser stops the idle service worker and starts it again for the next
\* event: the module is evaluated anew, chrome.storage and the tab are as
\* they were, onInstalled does not fire
Restart ==
    /\ worker.restarts < MaxRestarts
    /\ \A r \in Requests : worker.requests[r].pc = "idle"
    /\ worker' = [worker EXCEPT !.stats = moduleState(now).stats,
                                !.recentlyBlocked = moduleState(now).recentlyBlocked,
                                !.requests = moduleState(now).requests,
                                !.restarts = @ + 1]
    /\ whitelist' = {}
    /\ cache' = <<>>
    /\ safeBrowsingCache' = EmptyMap
    /\ rateLimitCounters' = EmptyMap
    /\ UNCHANGED <<now, apiKeys, calls, hist, fnArg, fnRet>>

\* chrome.runtime.onInstalled (the extension is installed or updated): the
\* stored statistics and whitelist are loaded
OnInstalled ==
    /\ worker.installed = 0
    /\ worker' = [worker EXCEPT
           !.stats = IF worker.local.stats # <<>> THEN worker.local.stats[1] ELSE @,
           !.installed = 1]
    /\ whitelist' = IF worker.local.whitelist # <<>>
                    THEN whitelist \cup {toLowerCase(d) : d \in worker.local.whitelist[1]}
                    ELSE whitelist
    /\ UNCHANGED <<now, cache, safeBrowsingCache, rateLimitCounters, apiKeys, calls,
                   hist, fnArg, fnRet>>

\* the alarms onInstalled created: saveStats and clearCache
Alarm(name) ==
    /\ worker.installed > 0
    /\ IF name = "clearCache"
       THEN cache' = <<>> /\ cache # <<>> /\ UNCHANGED worker
       ELSE /\ name = "saveStats"
            /\ worker' = [worker EXCEPT !.local.stats = <<worker.stats>>]
            /\ UNCHANGED cache
    /\ UNCHANGED <<now, whitelist, safeBrowsingCache, rateLimitCounters, apiKeys, calls,
                   hist, fnArg, fnRet>>

NextWorker ==
    \/ \E u \in WorkerURLS : Navigate(u)
    \/ PageLoads
    \/ \E r \in Requests : AnalysisReturns(r)
    \/ \E r \in Requests : SessionStored(r)
    \/ \E r \in Requests : BlockedStored(r)
    \/ ResetStats
    \/ \E d \in WorkerDomains : AddToWhitelistMessage(d)
    \/ \E d \in WorkerDomains : RemoveFromWhitelistMessage(d)
    \/ ProceedAnyway
    \/ Restart
    \/ OnInstalled
    \/ \E name \in {"clearCache", "saveStats"} : Alarm(name)

\* the extension as installed: no key is stored
InitWorker ==
    /\ Init
    /\ apiKeys = {}

SpecWorker == InitWorker /\ [][NextWorker]_vars

(***************************************************************************)
(* The result cache filled to its capacity: analyze called on one page     *)
(* after another, each call awaited before the next is made, no API key    *)
(* stored.  hist tells of the last call its path, its cache key and the    *)
(* keys cacheResult deleted, of every cached key the time it was last      *)
(* stored or served (used) and last served (hit), and how many of the      *)
(* pages were visited (pages).                                             *)
(***************************************************************************)
MaxEvictionAnalyses == 8
MaxEvictionTime == 2

InitEviction ==
    /\ Init
    /\ apiKeys = {}

\* the keys of a cache
cacheKeys(c) == {c[i].key : i \in 1..Len(c)}

\* a map cut down to the keys of a cache
keptFor(m, c) == [k \in DOMAIN m \cap cacheKeys(c) |-> m[k]]

\* await analyze(EvictionURL(i)), returning at time t: the whole call, from
\* normalizeURL to the return of the cached or newly built and stored result
Awaited(i, t, s, sb) ==
    IF s.path = "gateway"
    THEN LET key == s.normalizedUrl
             sbResponse == IF sb.pending THEN ofURL[key].checkLocalBlacklist
                           ELSE sb.response
             result == analyze_layers(key,
                           checkAllAPIs(<<sbResponse, checkPhishTank_noKey,
                                          checkVirusTotal_noKey>>), t)
         IN  /\ cache' = cacheResult(cache, key, result, t)
             /\ rateLimitCounters' = sb.counters
             /\ now' = t
             /\ hist' = [hist EXCEPT
                    !.analyses = @ + 1, !.gateway = @ + 1, !.pages = Max(@, i),
                    !.path = "gateway", !.key = key, !.evicted = toRemove(cache),
                    !.used = mapSet(keptFor(@, cache'), key, t),
                    !.hit = keptFor([k \in DOMAIN @ \ {key} |-> @[k]], cache')]
    ELSE /\ t = now
         /\ hist' = [hist EXCEPT
                !.analyses = @ + 1, !.pages = Max(@, i),
                !.path = s.path, !.key = s.normalizedUrl, !.evicted = {},
                !.used = IF s.path = "cache" THEN mapSet(@, s.normalizedUrl, now) ELSE @,
                !.hit = IF s.path = "cache" THEN mapSet(@, s.normalizedUrl, now) ELSE @]
         /\ UNCHANGED <<now, cache, rateLimitCounters>>

\* the pages are visited for the first time in the order of their numbers
AnalyzeAwaited(i, t) ==
    /\ hist.analyses < MaxEvictionAnalyses
    /\ i <= hist.pages + 1
    /\ LET s == analyze_start(EvictionURL(i), whitelist, cache, now)
       IN  Awaited(i, t, s,
               checkSafeBrowsing_start(safeBrowsingCache, rateLimitCounters,
                                       s.normalizedUrl, now))
    /\ UNCHANGED <<whitelist, safeBrowsingCache, apiKeys, worker, calls, fnArg, fnRet>>

TickEviction ==
    /\ now < MaxEvictionTime
    /\ now' = now + 1
    /\ UNCHANGED <<whitelist, cache, safeBrowsingCache, rateLimitCounters, apiKeys, worker,
                   calls, hist, fnArg, fnRet>>

NextEviction ==
    \/ \E i \in 1..MAX_CACHE_SIZE + 1, t \in now..Min(now + 1, MaxEvictionTime) :
           AnalyzeAwaited(i, t)
    \/ TickEviction

SpecEviction == InitEviction /\ [][NextEviction]_vars

(***************************************************************************)
(* The same pages with the other operations on the analyzer between the    *)
(* awaited calls: a url that cannot be parsed, the first page's host put   *)
(* on and taken off the whitelist, and clearCache.  No time passes: the    *)
(* entries are evicted in the order of their insertion.                    *)
(***************************************************************************)
MaxBoundedAnalyses == 8
BoundedDomains == {"site1.com"}
InvalidURL == "google.com"

\* await analyze(InvalidURL)
AnalyzeInvalid ==
    /\ hist.analyses < MaxBoundedAnalyses
    /\ LET s == analyze_start(InvalidURL, whitelist, cache, now)
       IN  Awaited(0, now, s,
               checkSafeBrowsing_start(safeBrowsingCache, rateLimitCounters,
                                       s.normalizedUrl, now))
    /\ UNCHANGED <<whitelist, safeBrowsingCache, apiKeys, worker, calls, fnArg, fnRet>>

NextBounded ==
    \/ \E i \in 1..MAX_CACHE_SIZE + 1 :
           AnalyzeAwaited(i, now) /\ hist.analyses < MaxBoundedAnalyses
    \/ AnalyzeInvalid
    \/ \E d \in BoundedDomains : AddToWhitelist(d)
    \/ \E d \in BoundedDomains : RemoveFromWhitelist(d)
    \/ ClearCache

SpecBounded == InitEviction /\ [][NextBounded]_vars

(***************************************************************************)
(* The gateway's service checks called one at a time, each awaited before  *)
(* the next is made: fnArg is the last call, fnRet what it returned.       *)
(***************************************************************************)
MaxChecks == 4
MaxGatewayTime == 3

GatewayURLS == {"https://google.com", "http://phishing.tk"}

\* the extension as installed (no key stored) and fully configured
GatewayKeyConfigs == {{}, Services}

InitGateway ==
    /\ Init
    /\ apiKeys \in GatewayKeyConfigs

\* what a check returned, and the history with it
Checked(fn, service, u, response, requested, counted) ==
    /\ hist.checks < MaxChecks
    /\ fnArg' = [NoCall EXCEPT !.fn = fn, !.url = u]
    /\ fnRet' = [NoReturn EXCEPT
           !.applied = 1, !.response = response, !.requested = requested,
           !.counted = counted,
           !.fresh = {h.malicious : h \in {x \in hist.checked :
                          x.service = service /\ x.url = u /\ now - x.time < SAFE_URL_TTL}}]
    /\ hist' = [hist EXCEPT
           !.checks = @ + 1,
           !.admitted = IF counted THEN [@ EXCEPT ![service] = Append(@, now)] ELSE @,
           !.checked = IF requested /\ response.success
                       THEN @ \cup {[service |-> service, url |-> u, time |-> now,
                                     malicious |-> response.malicious]}
                       ELSE @]
    /\ UNCHANGED <<now, whitelist, cache, apiKeys, worker, calls>>

\* the ways checkSafeBrowsing goes on from its first await
checkSafeBrowsing_resumed(keys, local) ==
    IF "safe_browsing" \notin keys
    THEN {[response |-> local, requested |-> FALSE]}
    ELSE {[response |-> checkSafeBrowsing_fetched(o), requested |-> TRUE] : o \in FetchOutcomes}

\* SignatureEngine.checkSafeBrowsing(u)
CheckSafeBrowsing(u) ==
    LET s == checkSafeBrowsing_start(safeBrowsingCache, rateLimitCounters, u, now)
    IN  /\ rateLimitCounters' = s.counters
        /\ \E a \in (IF s.pending
                     THEN checkSafeBrowsing_resumed(apiKeys, ofURL[u].checkLocalBlacklist)
                     ELSE {[response |-> s.response, requested |-> FALSE]}) :
               /\ Checked("checkSafeBrowsing", "safe_browsing", u, a.response, a.requested,
                          s.pending)
               /\ safeBrowsingCache' =
                      IF a.requested /\ a.response.success
                      THEN mapSet(safeBrowsingCache, u,
                                  [malicious |-> a.response.malicious, timestamp |-> now])
                      ELSE safeBrowsingCache

\* SignatureEngine.checkPhishTank(u)
CheckPhishTank(u) ==
    /\ \E a \in (IF "phishtank" \notin apiKeys
                 THEN {[response |-> checkPhishTank_noKey, requested |-> FALSE]}
                 ELSE {[response |-> checkPhishTank_fetched(o), requested |-> TRUE] :
                          o \in FetchOutcomes}) :
           Checked("checkPhishTank", "phishtank", u, a.response, a.requested, FALSE)
    /\ UNCHANGED <<safeBrowsingCache, rateLimitCounters>>

\* SignatureEngine.checkVirusTotal(u)
CheckVirusTotal(u) ==
    IF "virustotal" \notin apiKeys
    THEN /\ Checked("checkVirusTotal", "virustotal", u, checkVirusTotal_noKey, FALSE, FALSE)
         /\ UNCHANGED <<safeBrowsingCache, rateLimitCounters>>
    ELSE LET rl == checkRateLimit(rateLimitCounters, "virustotal", VIRUSTOTAL_PER_DAY, now)
         IN  /\ rateLimitCounters' = rl.counters
             /\ \E a \in (IF rl.ok
                          THEN {[response |-> checkVirusTotal_fetched(o), requested |-> TRUE] :
                                   o \in FetchOutcomes}
                          ELSE {[response |-> checkVirusTotal_limited, requested |-> FALSE]}) :
                    Checked("checkVirusTotal", "virustotal", u, a.response, a.requested, rl.ok)
             /\ UNCHANGED safeBrowsingCache

\* time passes between two checks
TickGateway ==
    /\ now < MaxGatewayTime
    /\ now' = now + 1
    /\ UNCHANGED <<whitelist, cache, safeBrowsingCache, rateLimitCounters, apiKeys, worker,
                   calls, hist, fnArg, fnRet>>

NextGateway ==
    \/ \E u \in GatewayURLS : CheckSafeBrowsing(u)
    \/ \E u \in GatewayURLS : CheckPhishTank(u)
    \/ \E u \in GatewayURLS : CheckVirusTotal(u)
    \/ TickGateway

SpecGateway == InitGateway /\ [][NextGateway]_vars

(***************************************************************************)
(* The pure functions, each applied to every input of a bounded set: fnArg *)
(* is the call, fnRet what it returned.                                    *)
(***************************************************************************)
MaxScore == 110
MaxTail == 3

\* the strings over alphabet of length n
RECURSIVE stringsOf(_, _)
stringsOf(alphabet, n) ==
    IF n = 0 THEN {""}
    ELSE {s \o a : s \in stringsOf(alphabet, n - 1), a \in alphabet}

\* inputs of normalizeURL: absolute urls and malformed strings, each followed
\* by up to MaxTail characters among / # ? A
Heads == {"http://a.com", "HTTPS://A.com/b", "http://a.com/?q=1", "a.com", ""}
Tails == UNION {stringsOf({"/", "#", "?", "A"}, n) : n \in 0..MaxTail}
NormalizeInputs == {h \o s : h \in Heads, s \in Tails}

\* the ways a service check can settle, per service (index 1, 2, 3)
SettledSB ==
    {fulfilled(TRUE, m, "Google Safe Browsing (cached)", "", 0) : m \in BOOLEAN}
    \cup {fulfilled(TRUE, m, "Local Blacklist", "", 0) : m \in BOOLEAN}
    \cup {checkSafeBrowsing_fetched(o) : o \in FetchOutcomes}
    \cup {fulfilled(FALSE, FALSE, "Google Safe Browsing", "Rate limit exceeded", 0),
          rejected("TypeError: Failed to fetch")}
SettledPT ==
    {checkPhishTank_noKey, rejected("TypeError: Failed to fetch")}
    \cup {checkPhishTank_fetched(o) : o \in FetchOutcomes}
SettledVT ==
    {checkVirusTotal_noKey, checkVirusTotal_limited, rejected("TypeError: Failed to fetch")}
    \cup {checkVirusTotal_fetched(o) : o \in FetchOutcomes}
SettledResults == {<<a, b, c>> : a \in SettledSB, b \in SettledPT, c \in SettledVT}

\* inputs of HeuristicEngine.analyze: urls whose path holds the first n words
\* of a list of keywords, n up to MaxKeywords
MaxKeywords == 5
PhishingWords == <<"login", "verify", "account", "update", "banking", "wallet", "invoice">>
UrgentWords == <<"urgent", "immediate", "expires", "suspended", "unauthorized", "locked">>

RECURSIVE pathOf(_, _)
pathOf(words, n) ==
    IF n = 0 THEN "" ELSE pathOf(words, n - 1) \o "/" \o words[n]

HeuristicHeads ==
    {"https://a.com", "http://example.tk", "https://docs.google.com",
     "https://paypal.xn--80ak6aa92e.com", "http://192.168.0.1"}
HeuristicInputs ==
    {h \o pathOf(words, n) :
        h \in HeuristicHeads, words \in {PhishingWords, UrgentWords},
        n \in 0..Min(MaxKeywords, Min(Len(PhishingWords), Len(UrgentWords)))}

\* strings that new URL refuses, and the inputs of extractFeatures
RefusedInputs ==
    {"", "a.com", "not a url", "http://", "//phishing.tk/login",
     "paypal login verify urgent", "xn--paypal.tk/account"}

\* urls of trusted and other hosts, of low and high host entropy, padded to
\* lengths on either side of the three length thresholds, with and without a
\* readable query
Pad20 == "abababababababababab"
Pad60 == Pad20 \o Pad20 \o Pad20
Pad140 == Pad60 \o Pad60 \o Pad20
Pad260 == Pad140 \o Pad60 \o Pad60
LengthHeads ==
    {"https://github.com", "https://storage.googleapis.com",
     "https://abcdefghijklmnopqrstuvwxyz0123.googleapis.com",
     "https://abcdefghijklmnopqrstuvwxyz0123.example.org",
     "https://example.org", "https://notgoogleapis.com"}
LengthInputs ==
    {h \o "/" \o filler \o q :
        h \in LengthHeads, filler \in {"", Pad60, Pad140, Pad260}, q \in {"", "?page=1"}}

ExtractInputs == HeuristicInputs \cup RefusedInputs \cup LengthInputs

\* inputs of MLEngine.predict: the vector of an unparseable url with its flags
\* set either way and its keyword scores, entropy, subdomains and length low
\* or high
FeatureVectors ==
    {[defaultMLFeatures EXCEPT
         !.hasReadableParams = b2i(1 \in flags), !.hasQualityDomain = b2i(2 \in flags),
         !.usesHTTPS = b2i(3 \in flags), !.hasIP = b2i(4 \in flags),
         !.hasPunycode = b2i(5 \in flags), !.hasSuspiciousTLD = b2i(6 \in flags),
         !.suspiciousEncoding = b2i(7 \in flags), !.isShortener = b2i(8 \in flags),
         !.phishingKeywordScore = pk, !.urgentKeywordScore = uk,
         !.entropy = e, !.subdomainCount = sc, !.urlLength = len] :
        flags \in SUBSET (1..8), pk \in {0, 10, 11, 36}, uk \in {0, 45},
        e \in {0, 5000}, sc \in {0, 6}, len \in {0, 121, 301}}

PureCalls ==
    {[NoCall EXCEPT !.fn = "getRiskLevel", !.score = s] : s \in 0..MaxScore}
    \cup {[NoCall EXCEPT !.fn = "normalizeURL", !.url = u] : u \in NormalizeInputs}
    \cup {[NoCall EXCEPT !.fn = "checkAllAPIs", !.results = r] : r \in SettledResults}
    \cup {[NoCall EXCEPT !.fn = "HeuristicEngine.analyze", !.url = u] : u \in ExtractInputs}
    \cup {[NoCall EXCEPT !.fn = "MLEngine.predict", !.features = f] : f \in FeatureVectors}
    \cup {[NoCall EXCEPT !.fn = "extractFeatures", !.url = u] : u \in ExtractInputs}

InitPure ==
    /\ worker = LoadedWorker
    /\ now = 0
    /\ whitelist = {}
    /\ cache = <<>>
    /\ safeBrowsingCache = EmptyMap
    /\ rateLimitCounters = EmptyMap
    /\ apiKeys = {}
    /\ calls = [c \in Calls |-> IdleCall]
    /\ hist = NoHistory
    /\ fnArg \in PureCalls
    /\ fnRet = NoReturn

machine == <<now, whitelist, cache, safeBrowsingCache, rateLimitCounters, apiKeys, worker,
             calls, hist>>

ApplyGetRiskLevel ==
    /\ fnArg.fn = "getRiskLevel"
    /\ fnRet.applied = 0
    /\ fnRet' = [fnRet EXCEPT !.applied = 1, !.level = getRiskLevel(fnArg.score)]
    /\ UNCHANGED <<machine, fnArg>>

ApplyNormalizeURL ==
    /\ fnArg.fn = "normalizeURL"
    /\ fnRet.applied = 0
    /\ fnRet' = [fnRet EXCEPT !.applied = 1, !.url = normalizeURL(fnArg.url)]
    /\ UNCHANGED <<machine, fnArg>>

\* normalizeURL applied to what it returned
ApplyNormalizeURLAgain ==
    /\ fnArg.fn = "normalizeURL"
    /\ fnRet.applied = 1
    /\ fnRet' = [fnRet EXCEPT !.applied = 2, !.again = normalizeURL(fnRet.url)]
    /\ UNCHANGED <<machine, fnArg>>

ApplyCheckAllAPIs ==
    /\ fnArg.fn = "checkAllAPIs"
    /\ fnRet.applied = 0
    /\ fnRet' = [fnRet EXCEPT !.applied = 1, !.layers = checkAllAPIs(fnArg.results)]
    /\ UNCHANGED <<machine, fnArg>>

\* analyze returning at the first rule that fires
analyzedUntilFirst(ret, features, urlObj) ==
    IF ~urlObj.ok
    THEN [ret EXCEPT !.applied = 1, !.threw = TRUE, !.features = features]
    ELSE [ret EXCEPT !.applied = 1, !.features = features,
                     !.layers = SubSeq(heuristicLayers(features, urlObj), 1,
                                       Min(1, Len(heuristicLayers(features, urlObj))))]

\* what a call of HeuristicEngine.analyze leaves, given the features and the
\* URL record of its argument: new URL(url), outside any try block, throws
\* when the url does not parse
analyzed(ret, features, urlObj) ==
    IF ~urlObj.ok
    THEN [ret EXCEPT !.applied = 1, !.threw = TRUE, !.features = features]
    ELSE [ret EXCEPT !.applied = 1, !.features = features,
                     !.layers = heuristicLayers(features, urlObj)]

\* HeuristicEngine.analyze(url)
ApplyHeuristicAnalyze ==
    /\ fnArg.fn = "HeuristicEngine.analyze"
    /\ fnRet.applied = 0
    /\ fnRet' = analyzed(fnRet, extractFeatures(fnArg.url), URL(fnArg.url))
    /\ UNCHANGED <<machine, fnArg>>

\* MLEngine.predict(features), and the signal MLEngine.analyze makes of it
ApplyPredict ==
    /\ fnArg.fn = "MLEngine.predict"
    /\ fnRet.applied = 0
    /\ LET prediction == MLEngine_predict(fnArg.features)
       IN  fnRet' = [fnRet EXCEPT !.applied = 1, !.prediction = prediction,
                                  !.layers = <<mlLayer(prediction)>>]
    /\ UNCHANGED <<machine, fnArg>>

\* HeuristicEngine.extractFeatures(url): the try block encloses its whole body
ApplyExtractFeatures ==
    /\ fnArg.fn = "extractFeatures"
    /\ fnRet.applied = 0
    /\ fnRet' = [fnRet EXCEPT !.applied = 1, !.threw = FALSE,
                              !.features = extractFeatures(fnArg.url)]
    /\ UNCHANGED <<machine, fnArg>>

NextPure ==
    \/ ApplyGetRiskLevel
    \/ ApplyNormalizeURL
    \/ ApplyNormalizeURLAgain
    \/ ApplyCheckAllAPIs
    \/ ApplyHeuristicAnalyze
    \/ ApplyPredict
    \/ ApplyExtractFeatures

SpecPure == InitPure /\ [][NextPure]_vars

(***************************************************************************)
(* Properties                                                              *)
(***************************************************************************)
\* the calls that returned in the last step, and those among them that
\* returned an aggregated verdict
returned(c) == calls[c].pc = "done"
aggregated(c) == returned(c) /\ calls[c].path = "aggregated"

signatureMatched(layers) ==
    \E i \in 1..Len(layers) : layers[i].layer = "signature" /\ layers[i].matched

\* the sum of the scores of the matched signals
RECURSIVE matchedTotal(_)
matchedTotal(layers) ==
    IF Len(layers) = 0 THEN 0
    ELSE (IF Head(layers).matched THEN Head(layers).score ELSE 0) + matchedTotal(Tail(layers))

\* the urls of the model that new URL rejects, also once normalised
Unparseable == {u \in URLS : ~URL(u).ok /\ ~URL(normalizeURL(u)).ok}

safeVerdict(r) == r.riskScore = 0 /\ r.riskLevel = "safe" /\ r.isMalicious = FALSE

\* C1: trust priority -- every aggregated verdict whose signals hold a matched
\* signature-layer signal has riskScore 100, riskLevel critical and isMalicious
\* true, whatever the heuristic and ML signals are
C1_TrustPriority ==
    \A c \in Calls :
        aggregated(c) /\ signatureMatched(calls[c].result.detectionLayers)
        => /\ calls[c].result.riskScore = 100
           /\ calls[c].result.riskLevel = "critical"
           /\ calls[c].result.isMalicious = TRUE

\* a verdict made critical by one external service alone: no heuristic or ML
\* signal matched
C1_Witness ==
    \E c \in Calls :
        /\ aggregated(c)
        /\ signatureMatched(calls[c].result.detectionLayers)
        /\ \A i \in 1..Len(calls[c].result.detectionLayers) :
               calls[c].result.detectionLayers[i].layer # "signature"
               => ~calls[c].result.detectionLayers[i].matched
        /\ calls[c].result.riskScore = 100

\* C2: whitelist override -- a call of analyze started while the host of its
\* url (in lower case) was added to the whitelist and not removed since returns
\* riskScore 0, riskLevel safe, isMalicious false
C2_WhitelistOverride ==
    \A c \in Calls : returned(c) /\ calls[c].listed => safeVerdict(calls[c].result)

\* a whitelisted call answered safe while the result cache holds a malicious
\* verdict for its url that has not expired
C2_Witness ==
    \E c \in Calls :
        /\ returned(c)
        /\ calls[c].listed
        /\ safeVerdict(calls[c].result)
        /\ \E i \in 1..Len(cache) :
               /\ cache[i].key = calls[c].normalizedUrl
               /\ cache[i].result.isMalicious
               /\ now - cache[i].timestamp < SAFE_URL_TTL

\* C3: fail-open -- no call of analyze throws; a call whose url cannot be
\* parsed returns through the error handler; and the error handler's result is
\* riskScore 0, safe, not malicious, with the one signal 'Error Handler',
\* matched false
C3_FailOpen ==
    \A c \in Calls :
        returned(c)
        => /\ calls[c].path # "throw"
           /\ calls[c].url \in Unparseable => calls[c].path = "error"
           /\ calls[c].path = "error"
              => /\ safeVerdict(calls[c].result)
                 /\ Len(calls[c].result.detectionLayers) = 1
                 /\ calls[c].result.detectionLayers[1].method = "Error Handler"
                 /\ calls[c].result.detectionLayers[1].matched = FALSE

\* analyze("google.com") returned the error handler's result
C3_Witness ==
    \E c \in Calls :
        /\ returned(c)
        /\ calls[c].url = "google.com"
        /\ calls[c].path = "error"
        /\ calls[c].result.details = "Error during analysis"

\* C4: every result analyze returns, on any path, has 0 <= riskScore <= 100
C4_ScoreRange ==
    \A c \in Calls :
        returned(c) => calls[c].result.riskScore >= 0 /\ calls[c].result.riskScore <= 100

\* an aggregated verdict whose matched scores add up to more than 100
C4_Witness ==
    \E c \in Calls :
        /\ aggregated(c)
        /\ matchedTotal(calls[c].result.detectionLayers) > 100
        /\ calls[c].result.riskScore = 100

\* the order of the risk levels
rank(level) ==
    CASE level = "safe" -> 0
      [] level = "low" -> 1
      [] level = "medium" -> 2
      [] level = "high" -> 3
      [] level = "critical" -> 4

\* C5: getRiskLevel gives safe below 25, low for 25..39, medium for 40..59,
\* high for 60..84 and critical from 85 on, and never a lower level for a
\* higher score
C5_RiskLevelThresholds ==
    fnArg.fn = "getRiskLevel" /\ fnRet.applied = 1
    => /\ fnRet.level = (IF fnArg.score < 25 THEN "safe"
                         ELSE IF fnArg.score <= 39 THEN "low"
                         ELSE IF fnArg.score <= 59 THEN "medium"
                         ELSE IF fnArg.score <= 84 THEN "high"
                         ELSE "critical")
       /\ \A lower \in 0..fnArg.score : rank(getRiskLevel(lower)) <= rank(fnRet.level)

\* getRiskLevel(85) returned critical, with 84 one level below
C5_Witness ==
    /\ fnArg.fn = "getRiskLevel"
    /\ fnRet.applied = 1
    /\ fnArg.score = 85
    /\ fnRet.level = "critical"
    /\ getRiskLevel(84) = "high"

\* C6: an aggregated verdict with no matched signature-layer signal has
\* riskScore = min(100, sum of the scores of the matched signals), riskLevel =
\* getRiskLevel(riskScore), and isMalicious exactly when the level is high or
\* critical
C6_InternalScoring ==
    \A c \in Calls :
        aggregated(c) /\ ~signatureMatched(calls[c].result.detectionLayers)
        => LET r == calls[c].result
           IN  /\ r.riskScore = Min(100, matchedTotal(r.detectionLayers))
               /\ r.riskLevel = getRiskLevel(r.riskScore)
               /\ r.isMalicious = (r.riskLevel \in {"high", "critical"})

\* a verdict scored by the internal layers only, where a signal that did not
\* match carries a score of its own
C6_Witness ==
    \E c \in Calls :
        /\ aggregated(c)
        /\ ~signatureMatched(calls[c].result.detectionLayers)
        /\ calls[c].result.riskScore > 0
        /\ calls[c].result.riskScore < 100
        /\ \E i \in 1..Len(calls[c].result.detectionLayers) :
               /\ ~calls[c].result.detectionLayers[i].matched
               /\ calls[c].result.detectionLayers[i].score > 0

\* C7 as stated: a call of analyze that starts less than the TTL after an
\* aggregated verdict was returned for its cache key, with no clearCache and no
\* whitelist change in between, returns that verdict, makes no external request
\* and changes no rate-limit counter
C7_CacheHitAsStated ==
    \A c \in Calls :
        calls[c].pc # "idle" /\ calls[c].promised # {}
        => /\ calls[c].requests = 0
           /\ ~calls[c].counted
           /\ returned(c)
           /\ \A r \in calls[c].promised : calls[c].result = r

\* C7: a call of analyze that starts less than the TTL after an aggregated
\* verdict was returned for its cache key returns that verdict, makes no
\* external request and changes no rate-limit counter, provided that no
\* clearCache came in between, that the entry the earlier call stored was
\* neither evicted nor replaced by a later verdict for the key, and that the
\* host is not whitelisted when the call starts
C7_CacheHit ==
    \A c \in Calls :
        calls[c].pc # "idle" /\ calls[c].kept # {} /\ ~calls[c].listed
        => /\ calls[c].requests = 0
           /\ ~calls[c].counted
           /\ returned(c)
           /\ \A r \in calls[c].kept : calls[c].result = r

\* a later call, made with another spelling of the url and at a later time,
\* returned the verdict of the earlier one, timestamp included
C7_Witness ==
    \E c \in Calls :
        /\ returned(c)
        /\ calls[c].kept # {}
        /\ calls[c].result \in calls[c].kept
        /\ calls[c].url # calls[c].result.url
        /\ calls[c].result.timestamp < now

\* C8: normalizeURL(normalizeURL(u)) = normalizeURL(u) for every string u
C8_NormalizeIdempotent ==
    fnArg.fn = "normalizeURL" /\ fnRet.applied = 2 => fnRet.again = fnRet.url

\* C9: checkAllAPIs returns three signals, all of the signature layer, the
\* i-th one for the i-th service, however each of the three checks settled
C9_OneSignalPerService ==
    fnArg.fn = "checkAllAPIs" /\ fnRet.applied = 1
    => /\ Len(fnRet.layers) = 3
       /\ \A i \in 1..3 : fnRet.layers[i].layer = "signature"
       /\ fnRet.layers[1].method \in {"Google Safe Browsing", "Google Safe Browsing (cached)",
                                      "Local Blacklist"}
       /\ fnRet.layers[2].method = "PhishTank"
       /\ fnRet.layers[3].method = "VirusTotal"

\* the three signals of a call in which one promise was rejected and another
\* service flagged the url
C9_Witness ==
    /\ fnArg.fn = "checkAllAPIs"
    /\ fnRet.applied = 1
    /\ Len(fnRet.layers) = 3
    /\ \E i \in 1..3 : fnArg.results[i].status = "rejected"
    /\ \E i \in 1..3 : fnRet.layers[i].matched

\* what the other two services may have answered instead: both clean, both failed
Alternatives ==
    {<<checkSafeBrowsing_fetched("clean"), checkPhishTank_fetched("clean"),
       checkVirusTotal_fetched("clean")>>,
     <<checkSafeBrowsing_fetched("error"), checkPhishTank_fetched("error"),
       checkVirusTotal_limited>>}

\* C10: failure isolation in the gateway -- the three checks of a call are
\* started together, the call that returns carries three gateway signals, and
\* the signal of each service is the one it would carry had the other two
\* services answered otherwise
C10_FailureIsolation ==
    \A c \in Calls :
        /\ calls[c].pc = "apis"
           => calls[c].sb.status # "none" /\ calls[c].pt.status # "none"
              /\ calls[c].vt.status # "none"
        /\ aggregated(c)
           => LET results == <<calls[c].sb.response, calls[c].pt.response,
                               calls[c].vt.response>>
                  layers == calls[c].result.detectionLayers
              IN  /\ Len(layers) >= 3
                  /\ \A i \in 1..3 : layers[i].layer = "signature"
                  /\ Len(layers) > 3 => layers[4].layer # "signature"
                  /\ \A i \in 1..3 : \A other \in Alternatives :
                        LET alt == checkAllAPIs([j \in 1..3 |->
                                       IF j = i THEN results[i] ELSE other[j]])
                        IN  Len(alt) = 3 /\ layers[i] = alt[i]

\* a verdict that carries the flag of one service next to the failure of another
C10_Witness ==
    \E c \in Calls :
        /\ aggregated(c)
        /\ ~calls[c].sb.response.success
        /\ calls[c].vt.response.malicious
        /\ calls[c].result.detectionLayers[3].matched
        /\ calls[c].result.detectionLayers[1].method = "Google Safe Browsing"

\* the error a settled check reports: the error of an unsuccessful response,
\* the reason of a rejected promise, "" when the check succeeded
errorOf(response) ==
    IF response.status = "rejected" THEN response.reason
    ELSE IF ~response.success
    THEN (IF response.error # "" THEN response.error ELSE "Unknown error")
    ELSE ""

responsesOf(call) == <<call.sb.response, call.pt.response, call.vt.response>>

\* the layers of a call without the gateway signals of the checks that failed
withoutFailed(call) ==
    LET layers == call.result.detectionLayers
        keep == {i \in 1..Len(layers) : i > 3 \/ errorOf(responsesOf(call)[i]) = ""}
    IN  [i \in 1..Cardinality(keep) |->
            layers[CHOOSE k \in keep : Cardinality({j \in keep : j <= k}) = i]]

quotaOf(service) ==
    IF service = "safe_browsing" THEN SAFE_BROWSING_PER_MINUTE ELSE VIRUSTOTAL_PER_DAY
admittedIn(service, t) ==
    Cardinality({i \in 1..Len(hist.admitted[service]) :
                    t <= hist.admitted[service][i] /\ hist.admitted[service][i] < t + RATE_WINDOW})

\* C12: rate limiting -- in every window of the limiter's length, wherever it
\* starts, checkRateLimit admits no more calls of a service than its quota, and
\* a check refused by the limiter answers 'Rate limit exceeded', not malicious,
\* without an external request
C12_RollingWindowQuota ==
    /\ \A service \in Limited : \A t \in 0..MaxGatewayTime :
           admittedIn(service, t) <= quotaOf(service)
    /\ fnRet.applied = 1 /\ fnRet.response.error = "Rate limit exceeded"
       => /\ ~fnRet.requested
          /\ ~fnRet.response.success
          /\ ~fnRet.response.malicious

\* C13: per-service cache -- a check of a service for a url that the same
\* service checked successfully by an external request less than a TTL before
\* answers that verdict from the cache, tagged '(cached)', sends no request and
\* leaves the rate-limit counters alone
C13_PerServiceCache ==
    fnRet.applied = 1 /\ fnRet.fresh # {}
    => /\ ~fnRet.requested
       /\ ~fnRet.counted
       /\ fnRet.response.success
       /\ fnRet.response.malicious \in fnRet.fresh
       /\ endsWith(fnRet.response.source, "(cached)")

\* C14: missing credentials -- with no Safe Browsing key every call of
\* checkSafeBrowsing answers the verdict of the local blacklist and its signal
\* carries it; with no PhishTank or VirusTotal key the check answers not
\* malicious; none of them sends an external request
C14_MissingCredentials ==
    fnRet.applied = 1
    => /\ fnArg.fn = "checkSafeBrowsing" /\ "safe_browsing" \notin apiKeys
          => /\ fnRet.response = ofURL[fnArg.url].checkLocalBlacklist
             /\ forEachResult(<<>>, fnRet.response, 1)[1].matched
                    = ofURL[fnArg.url].checkLocalBlacklist.malicious
             /\ ~fnRet.requested
       /\ fnArg.fn = "checkPhishTank" /\ "phishtank" \notin apiKeys
          => /\ ~forEachResult(<<>>, fnRet.response, 2)[1].matched
             /\ ~fnRet.requested
       /\ fnArg.fn = "checkVirusTotal" /\ "virustotal" \notin apiKeys
          => /\ ~forEachResult(<<>>, fnRet.response, 3)[1].matched
             /\ ~fnRet.requested

\* the number of signals of a layer among layers
countOf(layers, layer) == Cardinality({i \in 1..Len(layers) : layers[i].layer = layer})

\* the heuristic signals and the ML signal of each url that parses (each is
\* evaluated once)
internalOf ==
    [u \in {k \in KnownURLs : URL(k).ok} |->
        [heuristic |-> HeuristicEngine_analyze(u), ml |-> MLEngine_analyze(u)]]

C16_WhitelistNoSideEffects ==
    [][\A c \in Calls :
          taken[c].pc = "idle" /\ calls'[c].pc # "idle" /\ calls'[c].listed
          => /\ calls'[c].pc = "done"
             /\ calls'[c].path = "whitelist"
             /\ calls'[c].requests = 0
             /\ ~calls'[c].counted
             /\ calls'[c].sb = Unstarted /\ calls'[c].pt = Unstarted /\ calls'[c].vt = Unstarted
             /\ calls'[c].result.detectionLayers
                    = <<signal("signature", "Whitelist", 0, "Domain is whitelisted", FALSE)>>
             /\ UNCHANGED <<cache, safeBrowsingCache, rateLimitCounters, whitelist>>]_vars

\* a whitelisted call that returned its one signal and left in place the
\* counters and the cache entry an earlier call had made
C16_Witness ==
    \E c \in Calls :
        /\ returned(c)
        /\ calls[c].listed
        /\ calls[c].path = "whitelist"
        /\ Len(calls[c].result.detectionLayers) = 1
        /\ calls[c].result.detectionLayers[1].method = "Whitelist"
        /\ rateLimitCounters # EmptyMap
        /\ Len(cache) = 1

\* the methods of the matched signals of layers that are, or are not, gateway
\* signals
matchedMethods(layers, ofGateway) ==
    methodsOf(SelectSeq(layers, LAMBDA l : l.matched /\ ((l.layer = "signature") = ofGateway)))

FlaggedBy == "Flagged by external threat intelligence: "

\* C17: details on a signature match -- when a gateway signal matched (the
\* local blacklist's included), details start by naming every matched gateway
\* signal as the external intelligence that flagged the url, name the matched
\* internal signals only after that list, and never say that external threat
\* intelligence was clean; with one gateway signal matched and no internal one
\* details name that service and nothing else
C17_DetailsOnSignatureMatch ==
    \A c \in Calls :
        aggregated(c) /\ signatureMatched(calls[c].result.detectionLayers)
        => LET details == calls[c].result.details
               flagging == matchedMethods(calls[c].result.detectionLayers, TRUE)
               internal == matchedMethods(calls[c].result.detectionLayers, FALSE)
               named == FlaggedBy \o join(flagging, ", ")
           IN  /\ SubSeq(details, 1, Len(named)) = named
               /\ \A i \in 1..Len(internal) :
                      includes(SubSeq(details, Len(named) + 1, Len(details)), internal[i])
               /\ ~includes(details, "External threat intelligence: Clean")
               /\ Len(flagging) = 1 /\ Len(internal) = 0 => details = named

\* C18: score range -- every signal a layer produces has a score from 0 to
\* 100, whatever the url: the gateway's, the heuristic rules' (the rules
\* 'Phishing Keywords' and 'Social Engineering Language' scale with the number
\* of keywords found) and the ML signal
C18_SignalScoreRange ==
    fnRet.applied = 1
    => \A i \in 1..Len(fnRet.layers) :
           0 <= fnRet.layers[i].score /\ fnRet.layers[i].score <= 100

\* C19: range of the prediction -- for every feature vector MLEngine.predict
\* returns a score from 0 to 100 and a confidence from 0.1 to 1.0 (in
\* hundredths: from 10 to 100)
C19_PredictRange ==
    fnArg.fn = "MLEngine.predict" /\ fnRet.applied = 1
    => /\ 0 <= fnRet.prediction.score /\ fnRet.prediction.score <= 100
       /\ 10 <= fnRet.prediction.confidence /\ fnRet.prediction.confidence <= 100

\* a vector whose penalties sum to more than 100 with no legitimacy bonus, and
\* whose confidence sums to more than 1.0: both are returned clamped
C19_Witness ==
    /\ fnArg.fn = "MLEngine.predict"
    /\ fnRet.applied = 1
    /\ fnArg.features.hasIP = 1 /\ fnArg.features.hasPunycode = 1
    /\ fnArg.features.hasSuspiciousTLD = 1 /\ fnArg.features.suspiciousEncoding = 1
    /\ fnArg.features.hasReadableParams = 0 /\ fnArg.features.hasQualityDomain = 0
    /\ fnRet.prediction.score = 100
    /\ fnRet.prediction.confidence = 100

\* C20: threshold of the ML signal -- the ML signal carries the score of the
\* prediction and is matched exactly when that score is greater than 45; it
\* adds its score to riskScore when it is matched and nothing otherwise (45:
\* not matched, adds 0; 46: matched, adds 46)
C20_MLThreshold ==
    fnArg.fn = "MLEngine.predict" /\ fnRet.applied = 1
    => LET ml == fnRet.layers[1]
       IN  /\ Len(fnRet.layers) = 1
           /\ ml.layer = "ml"
           /\ ml.score = fnRet.prediction.score
           /\ ml.matched = (ml.score > 45)
           /\ buildResult("", fnRet.layers, 0).riskScore
                  = (IF ml.score > 45 THEN ml.score ELSE 0)
           /\ ml.score = 45 => ~ml.matched /\ sumMatched(fnRet.layers) = 0
           /\ ml.score = 46 => ml.matched /\ sumMatched(fnRet.layers) = 46

\* a prediction of 46: the signal is matched and the verdict made of it alone
\* has riskScore 46
C20_Witness ==
    /\ fnArg.fn = "MLEngine.predict"
    /\ fnRet.applied = 1
    /\ fnRet.prediction.score = 46
    /\ fnRet.layers[1].matched
    /\ buildResult("", fnRet.layers, 0).riskScore = 46

\* C21: extractFeatures is total -- it never throws, and for every string that
\* new URL refuses it returns one fixed benign feature set: no IP, no punycode,
\* no suspicious TLD, HTTPS assumed, no keyword, no brand, the quality flags
\* true, every count 0 and every other flag false
C21_ExtractFeaturesTotal ==
    fnArg.fn = "extractFeatures" /\ fnRet.applied = 1
    => /\ ~fnRet.threw
       /\ ~URL(fnArg.url).ok
          => fnRet.features =
                 [length |-> 0, domainLength |-> 0, subdomainCount |-> 0, hasIP |-> FALSE,
                  usesHTTPS |-> TRUE, hasSuspiciousTLD |-> FALSE, hasPunycode |-> FALSE,
                  hasPort |-> FALSE, specialCharCount |-> 0, digitCount |-> 0,
                  entropy |-> 0, urlEncodingCount |-> 0, suspiciousEncoding |-> FALSE,
                  hasReadableParams |-> TRUE, hasRandomParams |-> FALSE,
                  hasQualityDomain |-> TRUE, phishingKeywordCount |-> 0,
                  urgentKeywordCount |-> 0, brandImpersonation |-> "", pathDepth |-> 0,
                  pathSlashCount |-> 0, hasConsecutiveChars |-> FALSE,
                  isShortener |-> FALSE, hasHyphenSpam |-> FALSE, hasDotSpam |-> FALSE]

\* the defaults returned for a string that is no url and holds a brand, three
\* phishing keywords and an urgent keyword
C21_Witness ==
    /\ fnArg.fn = "extractFeatures"
    /\ fnRet.applied = 1
    /\ fnArg.url = "paypal login verify urgent"
    /\ ~URL(fnArg.url).ok
    /\ fnRet.features.phishingKeywordCount = 0
    /\ fnRet.features.usesHTTPS

\* C22: the heuristic scorer is total and deterministic -- HeuristicEngine.analyze
\* returns a list of signals without throwing for every string, those that are
\* no url included, and the list is the one a second call with the same string
\* returns
C22_HeuristicTotal ==
    fnArg.fn = "HeuristicEngine.analyze" /\ fnRet.applied = 1
    => /\ ~fnRet.threw
       /\ fnRet.layers = analyzed(NoReturn, extractFeatures(fnArg.url), URL(fnArg.url)).layers

\* the signals of layers that a rule pushed, by the rule's method
pushedBy(layers, method) == Cardinality({i \in 1..Len(layers) : layers[i].method = method})

\* the host of a url is on the trusted-infrastructure list or below an entry of it
trustedHost(url) ==
    \E domain \in TRUSTED_INFRA_DOMAINS :
        \/ toLowerCase(URL(url).hostname) = domain
        \/ endsWith(toLowerCase(URL(url).hostname), "." \o domain)

\* the rules whose condition reads the features alone, each with its condition
FeatureRules(f) ==
    {<<"IP Address Detection", f.hasIP>>,
     <<"Suspicious TLD", f.hasSuspiciousTLD>>,
     <<"Punycode/IDN Detection", f.hasPunycode>>,
     <<"Excessive Subdomains", f.subdomainCount > MAX_SUBDOMAINS>>,
     <<"Suspicious URL Encoding", f.suspiciousEncoding>>,
     <<"Brand Impersonation", f.brandImpersonation # "">>,
     <<"No HTTPS on Sensitive Page", ~f.usesHTTPS /\ f.phishingKeywordCount > 0>>,
     <<"Character Pattern Anomaly", f.hasConsecutiveChars>>,
     <<"URL Shortener Detected", f.isShortener>>,
     <<"Hyphen Spam", f.hasHyphenSpam>>,
     <<"Subdomain Spam", f.hasDotSpam>>,
     <<"Excessive Path Depth", f.pathDepth > PATH_MAX_DEPTH>>,
     <<"Social Engineering Language", f.urgentKeywordCount > 0>>}

\* C23: the heuristic rules are independent -- the signal of a rule is in the
\* list analyze returns exactly when the rule's own condition holds, once,
\* whatever other rules fired (a host with 'xn--' and a brand name that is not
\* the brand's own domain gets both 'Punycode/IDN Detection' and 'Brand
\* Impersonation'), and calculateScore of the list is the sum of the scores,
\* at most 100
C23_RulesIndependent ==
    fnArg.fn = "HeuristicEngine.analyze" /\ fnRet.applied = 1 /\ ~fnRet.threw
    => LET f == fnRet.features
           layers == fnRet.layers
           structured == f.hasReadableParams /\ f.hasQualityDomain
           trusted == trustedHost(fnArg.url)
           extreme ==
               ~trusted /\ f.length > (IF structured THEN URL_LENGTH_EXTREME
                                       ELSE URL_LENGTH_VERY_SUSPICIOUS)
       IN  /\ \A rule \in FeatureRules(f) :
                  pushedBy(layers, rule[1]) = (IF rule[2] THEN 1 ELSE 0)
           /\ pushedBy(layers, "Excessive URL Length") = (IF extreme THEN 1 ELSE 0)
           /\ pushedBy(layers, "Long URL")
                  = (IF ~extreme /\ ~trusted /\ f.length > URL_LENGTH_SUSPICIOUS /\ ~structured
                     THEN 1 ELSE 0)
           /\ pushedBy(layers, "High Domain Entropy")
                  = (IF ~trusted /\ f.entropy > 4000 THEN 1 ELSE 0)
           /\ pushedBy(layers, "Phishing Keywords")
                  = (IF (IF trusted
                         THEN keywordCount(PHISHING_KEYWORDS, toLowerCase(URL(fnArg.url).hostname))
                         ELSE f.phishingKeywordCount) > 0
                     THEN 1 ELSE 0)
           /\ LET parts == split(URL(fnArg.url).hostname, ".")
              IN  /\ pushedBy(layers, "DGA / Random Domain")
                         = (IF Len(parts) >= 2 /\ isSuspiciousSLD(parts[Len(parts) - 1])
                            THEN 1 ELSE 0)
                  /\ pushedBy(layers, "Suspicious Subdomain")
                         = (IF Len(parts) > 2 /\ isSuspiciousSubdomain(parts[1])
                            THEN 1 ELSE 0)
           /\ \A i \in 1..Len(layers) : layers[i].layer = "heuristic" /\ layers[i].matched
           /\ calculateScore(layers) = Min(100, sumAll(layers))

\* a host that holds 'xn--' and the name of a brand away from the brand's
\* domain: both signals, among others, and a score capped at 100
C23_Witness ==
    /\ fnArg.fn = "HeuristicEngine.analyze"
    /\ fnRet.applied = 1
    /\ fnRet.features.hasPunycode
    /\ fnRet.features.brandImpersonation = "paypal"
    /\ pushedBy(fnRet.layers, "Punycode/IDN Detection") = 1
    /\ pushedBy(fnRet.layers, "Brand Impersonation") = 1
    /\ Len(fnRet.layers) > 2
    /\ sumAll(fnRet.layers) > 100
    /\ calculateScore(fnRet.layers) = 100

\* C24: for a url whose host is a trusted-infrastructure domain or a subdomain
\* of one, analyze returns none of 'Excessive URL Length', 'Long URL' and 'High
\* Domain Entropy', whatever the length and the entropy; for any other host
\* the three fire by their thresholds
C24_TrustedInfraSuppression ==
    fnArg.fn = "HeuristicEngine.analyze" /\ fnRet.applied = 1 /\ ~fnRet.threw
    => LET f == fnRet.features
           layers == fnRet.layers
           has(method) == \E i \in 1..Len(layers) : layers[i].method = method
           structured == f.hasReadableParams /\ f.hasQualityDomain
       IN  IF trustedHost(fnArg.url)
           THEN ~has("Excessive URL Length") /\ ~has("Long URL")
                /\ ~has("High Domain Entropy")
           ELSE /\ has("High Domain Entropy") <=> f.entropy > 4000
                /\ has("Excessive URL Length")
                       <=> \/ f.length > URL_LENGTH_EXTREME
                           \/ ~structured /\ f.length > URL_LENGTH_VERY_SUSPICIOUS
                /\ has("Long URL")
                       <=> /\ ~structured
                           /\ f.length > URL_LENGTH_SUSPICIOUS
                           /\ f.length <= URL_LENGTH_VERY_SUSPICIOUS

\* a url of more than 250 characters below googleapis.com whose host has an
\* entropy above 4.0: analyze ran and left none of the three signals
C24_Witness ==
    /\ fnArg.fn = "HeuristicEngine.analyze"
    /\ fnRet.applied = 1
    /\ ~fnRet.threw
    /\ trustedHost(fnArg.url)
    /\ URL(fnArg.url).hostname # "googleapis.com"
    /\ fnRet.features.length > URL_LENGTH_EXTREME
    /\ fnRet.features.entropy > 4000
    /\ \A i \in 1..Len(fnRet.layers) :
           fnRet.layers[i].method
               \notin {"Excessive URL Length", "Long URL", "High Domain Entropy"}

\* the same length and entropy on a host that is not trusted: two of the
\* signals are there
C24_WitnessOther ==
    /\ fnArg.fn = "HeuristicEngine.analyze"
    /\ fnRet.applied = 1
    /\ ~fnRet.threw
    /\ ~trustedHost(fnArg.url)
    /\ pushedBy(fnRet.layers, "Excessive URL Length") = 1
    /\ pushedBy(fnRet.layers, "High Domain Entropy") = 1

\* C25: when cacheResult is called with the cache at its capacity, it deletes
\* floor(0.2 * MAX_CACHE_SIZE) entries before it stores the result, and every
\* entry it leaves has a timestamp not smaller than that of every entry it
\* deleted; below the capacity it deletes nothing
C25_EvictsOldestFifth ==
    [][hist'.analyses = hist.analyses + 1 /\ hist'.path = "gateway"
       => LET left == {i \in 1..Len(cache) : cache[i].key \notin hist'.evicted}
              deleted == {i \in 1..Len(cache) : cache[i].key \in hist'.evicted}
          IN  /\ hist'.evicted \subseteq cacheKeys(cache)
              /\ cacheKeys(cache') = (cacheKeys(cache) \ hist'.evicted) \cup {hist'.key}
              /\ IF Len(cache) >= MAX_CACHE_SIZE
                 THEN /\ Cardinality(deleted) = (2 * MAX_CACHE_SIZE) \div 10
                      /\ \A i \in left, j \in deleted :
                             cache[i].timestamp >= cache[j].timestamp
                 ELSE deleted = {}]_vars

\* a call stored its result in a full cache: an entry was deleted for it, and
\* an older-placed entry with a newer timestamp was left
C25_Witness ==
    /\ hist.path = "gateway"
    /\ hist.evicted # {}
    /\ hist.evicted \cap cacheKeys(cache) = {}
    /\ Len(cache) = MAX_CACHE_SIZE
    /\ cache[1].timestamp > cache[2].timestamp

readmeLevel(score) ==
    IF score >= 90 THEN "critical"
    ELSE IF score >= 70 THEN "high"
    ELSE IF score >= 50 THEN "medium"
    ELSE IF score >= 30 THEN "low"
    ELSE "safe"

\* C27: the risk table of the README -- a riskScore of 0..29 gives the level
\* safe, 30..49 low, 50..69 medium, 70..89 high and 90..100 critical, and a url
\* is blocked (its level is high or critical) exactly when its score is 70 or
\* more
C27_ReadmeRiskTable ==
    fnArg.fn = "getRiskLevel" /\ fnRet.applied = 1 /\ fnArg.score <= 100
    => /\ fnRet.level = readmeLevel(fnArg.score)
       /\ fnRet.level \in {"high", "critical"} <=> fnArg.score >= 70

\* C28: cache lifetimes by verdict -- as long as its entry is in the cache, a
\* result with isMalicious false is returned to every call of analyze for its
\* key made less than SAFE_URL_TTL (1 hour) after it was stored, and a result
\* with isMalicious true to every call made less than MALICIOUS_URL_TTL (24
\* hours) after it was stored (the host not being on the whitelist)
C28_LifetimeByVerdict ==
    [][\A c \in Calls :
          /\ taken[c].pc = "idle"
          /\ calls'[c].pc # "idle"
          /\ calls'[c].path \notin {"whitelist", "error"}
          /\ mapHas(hist.kept, calls'[c].normalizedUrl)
          => \A h \in hist.kept[calls'[c].normalizedUrl] :
                 now - h.time < (IF h.result.isMalicious THEN MALICIOUS_URL_TTL
                                 ELSE SAFE_URL_TTL)
                 => /\ calls'[c].path = "cache"
                    /\ calls'[c].result = h.result]_vars

\* C29: the result cache evicts least-recently-used entries -- an entry that a
\* cache hit returned more recently than another entry was stored or returned
\* is never deleted by cacheResult while that other entry is left in the cache
C29_LeastRecentlyUsed ==
    [][hist'.analyses = hist.analyses + 1 /\ hist'.path = "gateway"
       => \A a \in hist'.evicted, b \in cacheKeys(cache) \ hist'.evicted :
              ~(mapHas(hist.hit, a) /\ mapHas(hist.used, b)
                /\ hist.hit[a] > hist.used[b])]_vars

\* the external requests a service was sent in the period of the given length
\* that starts at t: checkVirusTotal and checkSafeBrowsing send one after
\* every call checkRateLimit admits, once the key of the service is stored
requestsIn(service, t, length) ==
    IF service \notin apiKeys THEN 0
    ELSE Cardinality({i \in 1..Len(hist.admitted[service]) :
                         t <= hist.admitted[service][i]
                         /\ hist.admitted[service][i] < t + length})

\* 24 hours, RATE_WINDOW being the minute
Day == 24 * 60 * RATE_WINDOW

\* C30: the documented quotas -- in any period of 24 hours at most
\* VIRUSTOTAL_PER_DAY external VirusTotal requests are made, and in any minute
\* at most SAFE_BROWSING_PER_MINUTE external Safe Browsing requests
C30_DocumentedQuotas ==
    \A t \in 0..MaxGatewayTime :
        /\ requestsIn("virustotal", t, Day) <= VIRUSTOTAL_PER_DAY
        /\ requestsIn("safe_browsing", t, RATE_WINDOW) <= SAFE_BROWSING_PER_MINUTE

\* C40: legitimacy signals never raise the ML score -- for every feature
\* vector, the score predict gives with hasReadableParams 1 is at most the
\* score it gives with hasReadableParams 0 and every other feature the same,
\* and likewise for hasQualityDomain
C40_LegitimacyLowersScore ==
    fnArg.fn = "MLEngine.predict" /\ fnRet.applied = 1
    => /\ fnArg.features.hasReadableParams = 0
          => MLEngine_predict([fnArg.features EXCEPT !.hasReadableParams = 1]).score
                 <= fnRet.prediction.score
       /\ fnArg.features.hasQualityDomain = 0
          => MLEngine_predict([fnArg.features EXCEPT !.hasQualityDomain = 1]).score
                 <= fnRet.prediction.score

\* a vector without either signal whose score is strictly lower with each of
\* them, the length penalty halved by the readable parameters
C40_Witness ==
    /\ fnArg.fn = "MLEngine.predict"
    /\ fnRet.applied = 1
    /\ fnArg.features.hasReadableParams = 0
    /\ fnArg.features.hasQualityDomain = 0
    /\ fnArg.features.urlLength > 300
    /\ fnRet.prediction.score < 100
    /\ MLEngine_predict([fnArg.features EXCEPT !.hasReadableParams = 1]).score
           = fnRet.prediction.score - 33
    /\ MLEngine_predict([fnArg.features EXCEPT !.hasQualityDomain = 1]).score
           < fnRet.prediction.score

\* the step counted one more admitted call of service: the count of a live
\* window, below the quota, grew by one, or a window began with count 1
countedOne(service) ==
    IF mapHas(rateLimitCounters, service) /\ now <= rateLimitCounters[service].resetTime
    THEN /\ rateLimitCounters[service].count < quotaOf(service)
         /\ rateLimitCounters'[service]
                = [rateLimitCounters[service] EXCEPT !.count = @ + 1]
    ELSE rateLimitCounters'[service] = [count |-> 1, resetTime |-> now + RATE_WINDOW]

\* the step refused a call of service: the window is live and full, and stays
refusedOne(service) ==
    /\ mapHas(rateLimitCounters, service)
    /\ now <= rateLimitCounters[service].resetTime
    /\ rateLimitCounters[service].count >= quotaOf(service)
    /\ rateLimitCounters' = rateLimitCounters

RateLimitExceeded == "Rate limit exceeded"

\* C33: concurrent calls of analyze keep the shared state consistent -- under
\* every interleaving each call the limiter admits is counted once (no
\* increment is lost), a call is refused only in a full window, the count of a
\* window never exceeds the quota, and a call that returns its aggregated
\* result leaves exactly one cache entry for its key, holding that result:
\* of two calls that recompute one key the last to write wins
C33_ConcurrentCallsConsistent ==
    [][/\ \A service \in DOMAIN rateLimitCounters' :
              rateLimitCounters'[service].count <= quotaOf(service)
       /\ \A c \in Calls :
              LET began == taken[c].pc = "idle" /\ calls'[c].pc = "apis"
                  asked == /\ calls[c].pc = "apis" /\ calls[c].vt.status = "keys"
                           /\ calls'[c].vt.status # "keys"
                           /\ "virustotal" \in apiKeys
                  wrote == /\ calls[c].pc = "apis" /\ calls'[c].pc = "done"
                           /\ calls'[c].path = "aggregated"
              IN  /\ began /\ calls'[c].sb.status = "keys" => countedOne("safe_browsing")
                  /\ began /\ calls'[c].sb.response.error = RateLimitExceeded
                     => refusedOne("safe_browsing")
                  /\ asked /\ calls'[c].vt.status = "fetch" => countedOne("virustotal")
                  /\ asked /\ calls'[c].vt.response.error = RateLimitExceeded
                     => refusedOne("virustotal")
                  /\ wrote
                     => /\ Cardinality({i \in 1..Len(cache') :
                                           cache'[i].key = calls'[c].normalizedUrl}) = 1
                        /\ \E i \in 1..Len(cache') :
                               /\ cache'[i].key = calls'[c].normalizedUrl
                               /\ cache'[i].result = calls'[c].result
                               /\ cache'[i].timestamp = now]_vars

\* two overlapping calls for one key both went to the gateway and returned
\* different verdicts; the cache holds one entry, that of the call that
\* returned last, and the VirusTotal window is full
C33_Witness ==
    /\ hist.analyses = 2
    /\ calls[1].pc = "idle"
    /\ aggregated(2)
    /\ Cardinality(hist.returned[calls[2].normalizedUrl]) = 2
    /\ \E h \in hist.returned[calls[2].normalizedUrl] :
           h.result.isMalicious # calls[2].result.isMalicious
    /\ Len(cache) = 1
    /\ cache[1].result = calls[2].result
    /\ rateLimitCounters["virustotal"].count = VIRUSTOTAL_PER_DAY

\* C34: the two aggregation strategies give one verdict -- for every url and
\* every combination of outcomes of the three services, the analyzer that
\* returns at the first signature match and the one that runs all layers
\* return the same riskScore, riskLevel and isMalicious from the same gateway
\* signals
C34_SameVerdict ==
    \A c \in Calls :
        aggregated(c)
        => LET first == firstMatch_analyze_layers(calls[c].normalizedUrl,
                            SubSeq(calls[c].result.detectionLayers, 1, 3), now)
           IN  /\ first.riskScore = calls[c].result.riskScore
               /\ first.riskLevel = calls[c].result.riskLevel
               /\ first.isMalicious = calls[c].result.isMalicious

\* Safe Browsing flagged a url that also has a matched heuristic signal: the
\* first analyzer returns the three gateway signals only, the other one all
\* signals and other details, and both say critical, 100
C34_Witness ==
    \E c \in Calls :
        /\ aggregated(c)
        /\ calls[c].result.detectionLayers[1].matched
        /\ calls[c].result.detectionLayers[1].method = "Google Safe Browsing"
        /\ \E i \in 4..Len(calls[c].result.detectionLayers) :
               calls[c].result.detectionLayers[i].matched
        /\ LET first == firstMatch_analyze_layers(calls[c].normalizedUrl,
                            SubSeq(calls[c].result.detectionLayers, 1, 3), now)
           IN  /\ Len(first.detectionLayers) = 3
               /\ first.details # calls[c].result.details
               /\ first.riskScore = 100 /\ calls[c].result.riskScore = 100
               /\ first.riskLevel = "critical"

\* C35: no stale verdict -- analyze never returns a cached entry whose age (the
\* current time minus the entry's timestamp) is SAFE_URL_TTL or more; a call
\* that finds such an entry for its key runs the layers again, and on its
\* return the entry of the key holds the new result and the time of the return
C35_NoStaleVerdict ==
    [][\A c \in Calls :
          /\ (taken[c].pc = "idle" /\ calls'[c].pc # "idle")
             => /\ calls'[c].path = "cache"
                   => \E i \in 1..Len(cache) :
                          /\ cache[i].key = calls'[c].normalizedUrl
                          /\ cache[i].result = calls'[c].result
                          /\ now - cache[i].timestamp < SAFE_URL_TTL
                /\ (calls'[c].stale /\ calls'[c].path \notin {"whitelist", "error"})
                   => calls'[c].pc = "apis" /\ calls'[c].path = "gateway"
          /\ (calls[c].pc = "apis" /\ calls'[c].pc = "done" /\ calls[c].stale)
             => /\ calls'[c].path = "aggregated"
                /\ \E i \in 1..Len(cache') :
                       /\ cache'[i].key = calls'[c].normalizedUrl
                       /\ cache'[i].result = calls'[c].result
                       /\ cache'[i].timestamp = now'
                       /\ \A j \in 1..Len(cache') :
                              cache'[j].key = calls'[c].normalizedUrl => j = i]_vars

\* a call that found an entry of its key as old as the TTL has run the layers
\* and returned another verdict than the one that was cached, which the entry
\* now holds
C35_Witness ==
    \E c \in Calls :
        /\ aggregated(c)
        /\ calls[c].stale
        /\ mapHas(hist.returned, calls[c].normalizedUrl)
        /\ \E h \in hist.returned[calls[c].normalizedUrl] :
               /\ now - h.time >= SAFE_URL_TTL
               /\ h.result.isMalicious # calls[c].result.isMalicious
        /\ \E i \in 1..Len(cache) :
               /\ cache[i].key = calls[c].normalizedUrl
               /\ cache[i].result = calls[c].result
               /\ cache[i].timestamp = now

\* C36: bounded cache -- after any sequence of analyze, clearCache and
\* whitelist operations the result cache holds at most MAX_CACHE_SIZE entries,
\* and neither a whitelist short-circuit result nor an error-handler result is
\* stored in it
C36_BoundedCache ==
    /\ Len(cache) <= MAX_CACHE_SIZE
    /\ \A i \in 1..Len(cache) :
           /\ \A j \in 1..Len(cache[i].result.detectionLayers) :
                  cache[i].result.detectionLayers[j].method
                      \notin {"Whitelist", "Error Handler"}
           /\ URL(cache[i].key).ok
    /\ hist.path \in {"whitelist", "error"} => hist.evicted = {}

\* every page was analysed, the cache is full, and the last call returned the
\* whitelist result for the first page, which is not in the cache
C36_Witness ==
    /\ Len(cache) = MAX_CACHE_SIZE
    /\ hist.pages = MAX_CACHE_SIZE + 1
    /\ hist.gateway = MAX_CACHE_SIZE + 1
    /\ hist.path = "whitelist"
    /\ hist.key \notin cacheKeys(cache)
    /\ whitelist # {}

C31_BlockBeforeLoad ==
    [][(/\ worker.tab.pending # ""
        /\ worker'.tab.url = worker.tab.pending
        /\ worker'.tab.pending = "")
       => \A r \in Requests :
              worker.requests[r].url = worker.tab.pending
              => /\ worker.requests[r].pc # "analyze"
                 /\ ~worker.requests[r].result.isMalicious]_vars

\* C32: proceed anyway -- the request that the proceedAnyway handler starts for
\* the url of the blocked page is not found malicious by the listener (and so
\* is not redirected to the blocked page again)
C32_ProceedNotBlockedAgain ==
    \A r \in Requests :
        worker.requests[r].proceed => ~worker.requests[r].result.isMalicious

\* C38: statistics consistency -- in every state of the service worker
\* totalBlocked <= totalChecked, and totalChecked is the sum of the five
\* riskDistribution counters
C38_StatsConsistent ==
    /\ worker.stats.totalBlocked <= worker.stats.totalChecked
    /\ worker.stats.totalChecked
           = worker.stats.riskDistribution.safe + worker.stats.riskDistribution.low
             + worker.stats.riskDistribution.medium + worker.stats.riskDistribution.high
             + worker.stats.riskDistribution.critical

\* C39: whitelist durability -- whatever add and remove messages and restarts
\* of the worker happened, every domain added and not removed since is in the
\* stored whitelist and in the set analyze tests, and once a whitelist was
\* stored the stored list is the in-memory set
C39_WhitelistDurable ==
    /\ \A d \in worker.added :
           /\ worker.local.whitelist # <<>>
           /\ d \in worker.local.whitelist[1]
           /\ d \in whitelist
    /\ worker.local.whitelist # <<>> => worker.local.whitelist[1] = whitelist
====
